---- MODULE Spec2Model ----
(***************************************************************************)
(* Model of octovy's scan-result ingestion: usecase.InsertScanResult, the  *)
(* BigQuery client's Insert retry loop and the ScanRepository it drives.   *)
(* One ingestion runs at a time; every call to a backing store is one      *)
(* step, and every such call may fail.                                     *)
(***************************************************************************)
EXTENDS Integers, Sequences, FiniteSets, TLC

(***************************************************************************)
(* Bounds of the model.                                                    *)
(***************************************************************************)
MaxScans == 3
MaxResults == 2
MaxVulns == 2
MaxItems == 1200

(***************************************************************************)
(* Program constants.  Durations are in microseconds.                      *)
(***************************************************************************)
maxRetries == 10
initialBackoff == 5000000
maxBackoff == 60000000
backoffMultiplierNum == 3
backoffMultiplierDen == 2
batchSize == 500

VulnStatusActive == "active"
VulnStatusFixed == "fixed"
ScanStatusSuccess == "success"

(***************************************************************************)
(* Input domains.                                                          *)
(***************************************************************************)
VulnIDs == {"CVE-2024-0001", "CVE-2024-0002"}
TargetNames == {"go.mod"}
Metas == {[Owner |-> "acme", RepoName |-> "widgets", Branch |-> "main"]}
Schemas == {<<"id">>, <<"id", "results">>}
Severities == {"HIGH", "LOW"}

SeqsUpTo(S, n) == UNION {[1..k -> S] : k \in 0..n}

\* What one scan can detect when its database rates every vulnerability s.
DetectedVulnsOf(s) ==
  {[VulnerabilityID |-> v, PkgName |-> "left-pad", PkgPath |-> "",
    PkgID |-> "left-pad@1.0.0", Severity |-> s] : v \in VulnIDs}

DetectedVulns == UNION {DetectedVulnsOf(s) : s \in Severities}

ResultsOf(s) ==
  {[Target |-> t, Vulnerabilities |-> vs] :
      t \in TargetNames, vs \in SeqsUpTo(DetectedVulnsOf(s), MaxVulns)}
  \cup {[Target |-> "", Vulnerabilities |-> <<>>]}

Results == UNION {ResultsOf(s) : s \in Severities}

\* Reports with a well-formed header and any list of results, and the
\* header-level malformed ones (version 0 or negative, empty artifact name,
\* nil results).
\* The reports of one scan rate every vulnerability as the vulnerability
\* database of that time does.
ReportsRated(s) ==
  {[SchemaVersion |-> 2, ArtifactName |-> "widgets", ResultsNil |-> FALSE,
    Results |-> rs] : rs \in SeqsUpTo(ResultsOf(s), MaxResults)}
  \cup {[SchemaVersion |-> 0, ArtifactName |-> "widgets", ResultsNil |-> FALSE,
         Results |-> <<>>],
        [SchemaVersion |-> -1, ArtifactName |-> "widgets", ResultsNil |-> FALSE,
         Results |-> <<>>],
        [SchemaVersion |-> 2, ArtifactName |-> "", ResultsNil |-> FALSE,
         Results |-> <<>>],
        [SchemaVersion |-> 2, ArtifactName |-> "widgets", ResultsNil |-> TRUE,
         Results |-> <<>>]}

Reports == UNION {ReportsRated(s) : s \in Severities}

(***************************************************************************)
(* Errors are chains of messages, outermost wrapper first; NoErr is nil.   *)
(***************************************************************************)
NoErr == <<>>
Wrap(err, msg) == <<msg>> \o err
ErrIO == <<"unavailable">>
ErrSchemaMismatch ==
  <<"InvalidArgument: Input schema has more fields than BigQuery schema, extra fields:">>

Range(s) == {s[i] : i \in DOMAIN s}
Min(a, b) == IF a < b THEN a ELSE b

(***************************************************************************)
(* Pure functions of the domain model.                                     *)
(***************************************************************************)
\* trivy.Report.Validate: index of the first result with an empty target.
FirstEmptyTarget(rs) ==
  LET bad == {i \in DOMAIN rs : rs[i].Target = ""}
  IN  IF bad = {} THEN 0 ELSE CHOOSE i \in bad : \A j \in bad : i <= j

\* Validate that rejects the version 0 only.
Validate_ZeroOnly(report) ==
  IF report.SchemaVersion = 0 THEN <<"invalid schema version">>
  ELSE IF report.ArtifactName = "" THEN <<"artifact name is empty">>
  ELSE IF report.ResultsNil THEN <<"results is nil">>
  ELSE IF FirstEmptyTarget(report.Results) # 0 THEN <<"result target is empty">>
  ELSE NoErr

Validate(report) ==
  IF report.SchemaVersion <= 0 THEN <<"invalid schema version">>
  ELSE IF report.ArtifactName = "" THEN <<"artifact name is empty">>
  ELSE IF report.ResultsNil THEN <<"results is nil">>
  ELSE IF FirstEmptyTarget(report.Results) # 0 THEN <<"result target is empty">>
  ELSE NoErr

\* A digest that leaves the package path out.
VulnID_NoPath(d) == <<d.VulnerabilityID, d.PkgName, "", d.PkgID>>

\* trivy.DetectedVulnerability.ID: a digest of the four identity fields,
\* kept as the tuple it is computed from.
VulnID(d) == <<d.VulnerabilityID, d.PkgName, d.PkgPath, d.PkgID>>

\* model.NewVulnerability: the stored form of a detected vulnerability.
NewVulnerability(d) ==
  [ID |-> VulnID(d), Severity |-> d.Severity, Status |-> "",
   CreatedAt |-> 0, UpdatedAt |-> 0]

ToTargetID(target) == <<"sha256", target>>

GitHubRepoID(m) == <<m.Owner, "/", m.RepoName>>

(***************************************************************************)
(* Schemas are lists of field names.  Infer, Equal and Merge stand for the *)
(* bqs library calls of createOrUpdateBigQueryTable: the inferred schema   *)
(* follows the shape of the data, so a scan without results or without    *)
(* vulnerabilities infers fewer fields.                                    *)
(***************************************************************************)
Infer(report) ==
  LET rs == report.Results
  IN  <<"id">>
      \o (IF Len(rs) > 0 THEN <<"results">> ELSE <<>>)
      \o (IF \E i \in DOMAIN rs : Len(rs[i].Vulnerabilities) > 0
          THEN <<"vulnerabilities">> ELSE <<>>)

\* Equal that finds every pair of schemas different.
Equal_Never(a, b) == FALSE

Equal(a, b) == Len(a) = Len(b) /\ Range(a) = Range(b)

\* Merge that puts the new schema's fields first.
Merge_NewFirst(old, new) == new \o SelectSeq(old, LAMBDA f : f \notin Range(new))

Merge(old, new) == old \o SelectSeq(new, LAMBDA f : f \notin Range(old))

\* isSchemaNotFoundError: some error of the chain is the gRPC
\* InvalidArgument status carrying the schema-mismatch message.
isSchemaNotFoundError(err) ==
  \E i \in DOMAIN err : err[i] = ErrSchemaMismatch[1]

\* NextBackoff without the cap.
NextBackoff_NoCap(b) == (b * backoffMultiplierNum) \div backoffMultiplierDen

\* The backoff that follows a wait of b.
NextBackoff(b) ==
  Min((b * backoffMultiplierNum) \div backoffMultiplierDen, maxBackoff)

(***************************************************************************)
(* Reconciliation of one result against the stored vulnerabilities         *)
(* (processVulnerabilities, before its batch writes).                      *)
(***************************************************************************)
DetectedIDs(detected) == {VulnID(detected[i]) : i \in DOMAIN detected}

\* NewVulnsOf that keeps the empty Status of NewVulnerability.
NewVulnsOf_NoStatus(detected, existingMap, timestamp) ==
  LET fresh == SelectSeq(detected,
                         LAMBDA d : VulnID(d) \notin DOMAIN existingMap)
  IN  [i \in DOMAIN fresh |->
         [NewVulnerability(fresh[i]) EXCEPT !.CreatedAt = timestamp,
                                            !.UpdatedAt = timestamp]]

RECURSIVE NewVulnsOf(_, _, _)
NewVulnsOf(detected, existingMap, timestamp) ==
  IF detected = <<>> THEN <<>>
  ELSE LET vuln == NewVulnerability(Head(detected))
           rest == NewVulnsOf(Tail(detected), existingMap, timestamp)
       IN  IF vuln.ID \in DOMAIN existingMap THEN rest
           ELSE <<[vuln EXCEPT !.Status = VulnStatusActive,
                               !.CreatedAt = timestamp,
                               !.UpdatedAt = timestamp]>> \o rest

\* StatusUpdatesOf without the Fixed -> Active case.
StatusUpdatesOf_NoRedetect(detected, existingMap) ==
  LET gone == {id \in DOMAIN existingMap :
                  /\ id \notin DetectedIDs(detected)
                  /\ existingMap[id].Status = VulnStatusActive}
  IN  [id \in gone |-> VulnStatusFixed]

\* StatusUpdatesOf that marks every stored vulnerability the scan does not
\* detect Fixed, whatever its status.
StatusUpdatesOf_AnyStatus(detected, existingMap) ==
  LET redetected == {id \in DOMAIN existingMap :
                        /\ id \in DetectedIDs(detected)
                        /\ existingMap[id].Status = VulnStatusFixed}
      gone == {id \in DOMAIN existingMap : id \notin DetectedIDs(detected)}
  IN  [id \in redetected \cup gone |->
         IF id \in redetected THEN VulnStatusActive ELSE VulnStatusFixed]

StatusUpdatesOf(detected, existingMap) ==
  LET redetected == {id \in DOMAIN existingMap :
                        /\ id \in DetectedIDs(detected)
                        /\ existingMap[id].Status = VulnStatusFixed}
      gone == {id \in DOMAIN existingMap :
                  /\ id \notin DetectedIDs(detected)
                  /\ existingMap[id].Status = VulnStatusActive}
  IN  [id \in redetected \cup gone |->
         IF id \in redetected THEN VulnStatusActive ELSE VulnStatusFixed]

(***************************************************************************)
(* State.                                                                  *)
(*  cfg          which clients the use case was built with                 *)
(*  table        the BigQuery table (control plane)                        *)
(*  writerView   the schema the Storage Write API currently sees           *)
(*  rows         number of rows appended, per scan ID                      *)
(*  repos        the ScanRepository: repo -> branch -> target -> vulns     *)
(*  the others   position and locals of the running call, and its history: *)
(*               errs (the error of each attemptInsert, NoErr for success), *)
(*               recIdx (the result the reconciliation locals belong to),  *)
(*               failedOp (the store call whose failure ended the call),   *)
(*               bqOps, fsOps (the store calls made so far) and            *)
(*               prevDetected (what the previous ingestion detected, per   *)
(*               target, if it succeeded)                                  *)
(***************************************************************************)
VARIABLES cfg, table, writerView, rows, nextScanID, repos,
          pc, caller, meta, report, scanID,
          schema, schemaUpdated, metaData,
          enableRetry, attempt, backoff, errs,
          idx, recIdx, existingMap, newVulns, statusUpdates, ci, updated,
          updateList, ui, commits,
          retErr, errRange, failedOp, bqOps, fsOps, prevDetected,
          base, prevFailed, procs, trivyDB, streams, server

vars == <<cfg, table, writerView, rows, nextScanID, repos,
          pc, caller, meta, report, scanID,
          schema, schemaUpdated, metaData,
          enableRetry, attempt, backoff, errs,
          idx, recIdx, existingMap, newVulns, statusUpdates, ci, updated,
          updateList, ui, commits,
          retErr, errRange, failedOp, bqOps, fsOps, prevDetected,
          base, prevFailed, procs, trivyDB, streams, server>>

bqStore == <<table, writerView, rows>>
callVars == <<caller, meta, report, scanID>>
tblLocals == <<schema, schemaUpdated, metaData>>
insLocals == <<enableRetry, attempt, backoff, errs>>
fsLocals == <<idx, recIdx, existingMap, newVulns, statusUpdates, ci, updated,
              updateList, ui, commits>>

EmptyMap == [x \in {} |-> x]
NoTable == [exists |-> FALSE, schema |-> <<>>]
NoProcs == <<>>
\* The HTTP server as serveCommand starts it: listening, nothing answered.
ServerUp == [state |-> "serving", accepted |-> 0, last |-> 0]
TableOf(s) == [exists |-> TRUE, schema |-> s]

Configs ==
  {[bq |-> b, repo |-> r, impl |-> i] :
      b \in BOOLEAN, r \in BOOLEAN, i \in {"memory", "firestore"}}

Init ==
  /\ cfg \in {c \in Configs : c.repo \/ c.impl = "memory"}
  /\ table = NoTable
  /\ writerView = NoTable
  /\ rows = [s \in 1..MaxScans |-> 0]
  /\ nextScanID = 1
  /\ repos = EmptyMap
  /\ pc = "idle"
  /\ caller = "none"
  /\ meta = CHOOSE m \in Metas : TRUE
  /\ report = CHOOSE r \in Reports : r.Results = <<>> /\ Validate(r) = NoErr
  /\ scanID = 0
  /\ schema = <<>>
  /\ schemaUpdated = FALSE
  /\ metaData = NoTable
  /\ enableRetry = FALSE
  /\ attempt = 0
  /\ backoff = initialBackoff
  /\ errs = <<>>
  /\ idx = 1
  /\ recIdx = 0
  /\ existingMap = EmptyMap
  /\ newVulns = <<>>
  /\ statusUpdates = EmptyMap
  /\ ci = 0
  /\ updated = {}
  /\ updateList = <<>>
  /\ ui = 0
  /\ commits = <<>>
  /\ retErr = NoErr
  /\ errRange = <<>>
  /\ failedOp = ""
  /\ bqOps = {}
  /\ fsOps = {}
  /\ prevDetected = EmptyMap
  /\ base = EmptyMap
  /\ prevFailed = <<>>
  /\ procs = NoProcs
  /\ trivyDB = "HIGH"
  /\ streams = 0
  /\ server = ServerUp

\* The locals of a call as they are when it starts.
ResetLocals ==
  /\ schema' = <<>>
  /\ schemaUpdated' = FALSE
  /\ metaData' = NoTable
  /\ enableRetry' = FALSE
  /\ attempt' = 0
  /\ backoff' = initialBackoff
  /\ errs' = <<>>
  /\ idx' = 1
  /\ recIdx' = 0
  /\ existingMap' = EmptyMap
  /\ newVulns' = <<>>
  /\ statusUpdates' = EmptyMap
  /\ ci' = 0
  /\ updated' = {}
  /\ updateList' = <<>>
  /\ ui' = 0
  /\ commits' = <<>>

\* Where InsertScanResult goes once the BigQuery block is over.
AfterBigQuery == IF cfg.repo THEN "fs_repo" ELSE "done"

(***************************************************************************)
(* InsertScanResult: validation and construction of the scan record.       *)
(***************************************************************************)
\* InsertScanResult that builds the scan record without validating.
InsertScanResult_NoValidate ==
  /\ pc = "idle"
  /\ nextScanID <= MaxScans
  /\ \E m \in Metas, r \in ReportsRated(trivyDB) :
       /\ meta' = m
       /\ report' = r
  /\ caller' = "usecase"
  /\ scanID' = nextScanID
  /\ nextScanID' = nextScanID + 1
  /\ retErr' = NoErr
  /\ pc' = IF cfg.bq THEN "bq_meta" ELSE AfterBigQuery
  /\ failedOp' = ""
  /\ errRange' = <<>>
  /\ bqOps' = {}
  /\ fsOps' = {}
  /\ prevFailed' = IF prevFailed = <<meta', report'>> THEN prevFailed ELSE <<>>
  /\ base' = IF prevFailed = <<meta', report'>> THEN base ELSE repos
  /\ UNCHANGED <<cfg, streams, server, procs, trivyDB, bqStore, repos, tblLocals, insLocals, fsLocals,
                 prevDetected>>

\* InsertScanResult called with a report of the set R.
InsertScanResultOf(R) ==
  /\ pc = "idle"
  /\ nextScanID <= MaxScans
  /\ \E m \in Metas, r \in R :
       /\ meta' = m
       /\ report' = r
       /\ caller' = "usecase"
       /\ IF Validate(r) # NoErr
          THEN /\ pc' = "done"
               /\ retErr' = Wrap(Validate(r), "invalid trivy report")
               /\ UNCHANGED <<scanID, nextScanID>>
          ELSE /\ scanID' = nextScanID
               /\ nextScanID' = nextScanID + 1
               /\ retErr' = NoErr
               /\ pc' = IF cfg.bq THEN "bq_meta" ELSE AfterBigQuery
  /\ failedOp' = ""
  /\ errRange' = <<>>
  /\ bqOps' = {}
  /\ fsOps' = {}
  /\ prevFailed' = IF prevFailed = <<meta', report'>> THEN prevFailed ELSE <<>>
  /\ base' = IF prevFailed = <<meta', report'>> THEN base ELSE repos
  /\ UNCHANGED <<cfg, streams, server, procs, trivyDB, bqStore, repos, tblLocals, insLocals, fsLocals,
                 prevDetected>>

InsertScanResult == InsertScanResultOf(ReportsRated(trivyDB))

(***************************************************************************)
(* createOrUpdateBigQueryTable.                                            *)
(***************************************************************************)
GetMetadata ==
  /\ pc = "bq_meta"
  /\ bqOps' = bqOps \cup {"GetMetadata"}
  /\ \/ /\ metaData' = table
        /\ schema' = Infer(report)
        /\ pc' = IF ~table.exists THEN "bq_create"
                 ELSE IF Equal(table.schema, Infer(report)) THEN "bq_insert"
                 ELSE "bq_update"
        /\ UNCHANGED <<retErr, errRange, failedOp>>
     \/ /\ pc' = "done"
        /\ failedOp' = "GetMetadata"
        /\ errRange' = <<>>
        /\ retErr' = Wrap(Wrap(ErrIO, "failed to get table metadata"),
                          "failed to create BigQuery table")
        /\ UNCHANGED <<metaData, schema>>
  /\ UNCHANGED <<cfg, streams, server, procs, trivyDB, bqStore, nextScanID, repos, callVars, schemaUpdated,
                 insLocals, fsLocals, fsOps, prevDetected, base, prevFailed>>

\* CreateTable after which the table is updated as well.
CreateTable_ThenUpdate ==
  /\ pc = "bq_create"
  /\ bqOps' = bqOps \cup {"CreateTable"}
  /\ ~table.exists
  /\ table' = TableOf(schema)
  /\ schemaUpdated' = FALSE
  /\ pc' = "bq_update"
  /\ UNCHANGED <<retErr, errRange, failedOp>>
  /\ UNCHANGED <<cfg, streams, server, procs, trivyDB, writerView, rows, nextScanID, repos, callVars, schema,
                 metaData, insLocals, fsLocals, fsOps, prevDetected, base, prevFailed>>

CreateTable ==
  /\ pc = "bq_create"
  /\ bqOps' = bqOps \cup {"CreateTable"}
  /\ \/ /\ ~table.exists
        /\ table' = TableOf(schema)
        /\ schemaUpdated' = FALSE
        /\ pc' = "bq_insert"
        /\ UNCHANGED <<retErr, errRange, failedOp>>
     \/ /\ pc' = "done"
        /\ failedOp' = "CreateTable"
        /\ errRange' = <<>>
        /\ retErr' = Wrap(Wrap(ErrIO, "failed to create table"),
                          "failed to create BigQuery table")
        /\ UNCHANGED <<table, schemaUpdated>>
  /\ UNCHANGED <<cfg, streams, server, procs, trivyDB, writerView, rows, nextScanID, repos, callVars, schema,
                 metaData, insLocals, fsLocals, fsOps, prevDetected, base, prevFailed>>

UpdateTable ==
  /\ pc = "bq_update"
  /\ bqOps' = bqOps \cup {"UpdateTable"}
  /\ \/ /\ table' = TableOf(Merge(metaData.schema, schema))
        /\ schema' = Merge(metaData.schema, schema)
        /\ schemaUpdated' = TRUE
        /\ pc' = "bq_insert"
        /\ UNCHANGED <<retErr, errRange, failedOp>>
     \/ /\ pc' = "done"
        /\ failedOp' = "UpdateTable"
        /\ errRange' = <<>>
        /\ retErr' = Wrap(Wrap(ErrIO, "failed to update table"),
                          "failed to update BigQuery table")
        /\ UNCHANGED <<table, schema, schemaUpdated>>
  /\ UNCHANGED <<cfg, streams, server, procs, trivyDB, writerView, rows, nextScanID, repos, callVars,
                 metaData, insLocals, fsLocals, fsOps, prevDetected, base, prevFailed>>

\* The write path's view of the table catches up with the control plane.
Propagate ==
  /\ writerView # table
  /\ writerView' = table
  /\ UNCHANGED <<cfg, streams, server, procs, trivyDB, table, rows, nextScanID, repos, pc, callVars,
                 tblLocals, insLocals, fsLocals, retErr, errRange, failedOp, bqOps,
                 fsOps, prevDetected, base, prevFailed>>

(***************************************************************************)
(* bq.Client.Insert: one iteration of its loop is one attemptInsert.       *)
(***************************************************************************)
\* The option list InsertScanResult passes to Insert (it passes none; the
\* schemaUpdated flag travels in the context, which Insert does not read).
InsertOptions(flag) == FALSE

\* Outcomes of one attemptInsert against the write path.
AttemptOutcomes(s) ==
  IF ~writerView.exists THEN {"other"}
  ELSE IF Range(s) \subseteq Range(writerView.schema) THEN {"ok", "other"}
  ELSE {"mismatch", "other"}

\* InsertDecision that does not look at the retry option.
InsertDecision_AlwaysRetry(err, retry, att) ==
  IF ~isSchemaNotFoundError(err) THEN "return"
  ELSE IF att >= maxRetries THEN "exhausted"
  ELSE "retry"

\* InsertDecision that allows one more retry.
InsertDecision_OneMore(err, retry, att) ==
  IF ~isSchemaNotFoundError(err) THEN "return"
  ELSE IF ~retry THEN "return"
  ELSE IF att >= maxRetries + 1 THEN "exhausted"
  ELSE "retry"

\* What Insert does with the error of an attempt: "retry" or "return".
InsertDecision(err, retry, att) ==
  IF ~isSchemaNotFoundError(err) THEN "return"
  ELSE IF ~retry THEN "return"
  ELSE IF att >= maxRetries THEN "exhausted"
  ELSE "retry"

\* InsertReturns that notes a failure but lets InsertScanResult go on.
InsertReturns_Continue(err) ==
  /\ pc' = IF caller = "usecase" THEN AfterBigQuery ELSE "done"
  /\ retErr' = IF err = NoErr THEN retErr
               ELSE IF caller = "usecase"
               THEN Wrap(err, "failed to insert scan data to BigQuery")
               ELSE err

\* InsertReturns whose loop does not leave on success.
InsertReturns_NoReturn(err) ==
  IF err = NoErr
  THEN UNCHANGED <<pc, retErr>>
  ELSE /\ pc' = "done"
       /\ retErr' = IF caller = "usecase"
                    THEN Wrap(err, "failed to insert scan data to BigQuery")
                    ELSE err

\* Insert returns err to its caller.
InsertReturns(err) ==
  IF err = NoErr
  THEN /\ pc' = IF caller = "usecase" THEN AfterBigQuery ELSE "done"
       /\ UNCHANGED retErr
  ELSE /\ pc' = "done"
       /\ retErr' = IF caller = "usecase"
                    THEN Wrap(err, "failed to insert scan data to BigQuery")
                    ELSE err

attemptInsert ==
  /\ pc = "bq_insert"
  /\ bqOps' = bqOps \cup {"Insert"}
  /\ enableRetry' = IF errs = <<>> /\ caller = "usecase"
                    THEN InsertOptions(schemaUpdated) ELSE enableRetry
  /\ \E o \in AttemptOutcomes(schema) :
       LET err == IF o = "ok" THEN NoErr
                  ELSE IF o = "mismatch"
                  THEN Wrap(ErrSchemaMismatch, "failed to get append result")
                  ELSE Wrap(ErrIO, "failed to append rows")
           d == InsertDecision(err, enableRetry', attempt)
       IN  /\ errs' = Append(errs, err)
           /\ IF o = "ok"
              THEN /\ rows' = [rows EXCEPT ![scanID] = @ + 1]
                   /\ InsertReturns(NoErr)
                   /\ UNCHANGED <<attempt, backoff, failedOp>>
              ELSE /\ UNCHANGED rows
                   /\ IF d = "retry"
                      THEN /\ attempt' = attempt + 1
                           /\ backoff' = NextBackoff(backoff)
                           /\ UNCHANGED <<pc, retErr, failedOp>>
                      ELSE /\ InsertReturns(IF d = "exhausted"
                                            THEN Wrap(err, "failed to insert after retries")
                                            ELSE err)
                           /\ failedOp' = "Insert"
                           /\ UNCHANGED <<attempt, backoff>>
  /\ UNCHANGED <<cfg, streams, server, procs, trivyDB, table, writerView, nextScanID, repos, callVars,
                 tblLocals, fsLocals, errRange, fsOps, prevDetected, base,
                 prevFailed>>

\* A caller other than InsertScanResult that passes WithRetry(retry).
DirectInsert ==
  /\ pc = "idle"
  /\ cfg.bq
  /\ nextScanID <= MaxScans
  /\ \E s \in Schemas, retry \in BOOLEAN :
       /\ schema' = s
       /\ enableRetry' = retry
  /\ caller' = "direct"
  /\ scanID' = nextScanID
  /\ nextScanID' = nextScanID + 1
  /\ pc' = "bq_insert"
  /\ retErr' = NoErr
  /\ failedOp' = ""
  /\ errRange' = <<>>
  /\ bqOps' = {}
  /\ fsOps' = {}
  /\ UNCHANGED <<cfg, streams, server, procs, trivyDB, bqStore, repos, meta, report, schemaUpdated, metaData,
                 attempt, backoff, errs, fsLocals, prevDetected, base, prevFailed>>

(***************************************************************************)
(* The ScanRepository.  Both implementations keep the same hierarchy; the  *)
(* Firestore one can fail on any call, commits in chunks of batchSize and  *)
(* stamps UpdatedAt on a status update.                                    *)
(***************************************************************************)
CanFail == cfg.impl = "firestore"
ErrNotFound == <<"not found">>
NoTarget == <<>>

Put(f, k, v) == [x \in DOMAIN f \cup {k} |-> IF x = k THEN v ELSE f[x]]

RepoID == GitHubRepoID(meta)
\* TargetIDAt that takes the target of the last result for every result.
TargetIDAt_Last(i) == ToTargetID(report.Results[Len(report.Results)].Target)

\* The target ID of the i-th result of the report.
TargetIDAt(i) == ToTargetID(report.Results[i].Target)
HasRepo == RepoID \in DOMAIN repos
HasBranch == HasRepo /\ meta.Branch \in DOMAIN repos[RepoID].branches
HasTarget(t) ==
  HasBranch /\ t \in DOMAIN repos[RepoID].branches[meta.Branch].targets
VulnsOf(t) == repos[RepoID].branches[meta.Branch].targets[t].vulns

\* FirestoreFails that drops the error.
FirestoreFails_Swallow(err) ==
  /\ pc' = "done"
  /\ UNCHANGED retErr

\* insertToFirestore returns err from InsertScanResult.
FirestoreFails(err) ==
  /\ pc' = "done"
  /\ retErr' = Wrap(err, "failed to insert scan data to Firestore")

\* CreateOrUpdateRepository that starts the repository over, without its
\* branches.
CreateOrUpdateRepository_Replace ==
  /\ pc = "fs_repo"
  /\ fsOps' = fsOps \cup {<<"CreateOrUpdateRepository", NoTarget>>}
  /\ LET doc == [ID |-> RepoID, CreatedAt |-> scanID, UpdatedAt |-> scanID]
     IN  repos' = Put(repos, RepoID, [repo |-> doc, branches |-> EmptyMap])
  /\ pc' = "fs_branch"
  /\ UNCHANGED <<retErr, errRange, failedOp>>
  /\ UNCHANGED <<cfg, streams, server, procs, trivyDB, bqStore, nextScanID, callVars, tblLocals, insLocals,
                 fsLocals, bqOps, prevDetected, base, prevFailed>>

CreateOrUpdateRepository ==
  /\ pc = "fs_repo"
  /\ fsOps' = fsOps \cup {<<"CreateOrUpdateRepository", NoTarget>>}
  /\ \/ /\ LET doc == [ID |-> RepoID, CreatedAt |-> scanID, UpdatedAt |-> scanID]
           IN  repos' = IF HasRepo
                        THEN [repos EXCEPT ![RepoID].repo = doc]
                        ELSE Put(repos, RepoID, [repo |-> doc, branches |-> EmptyMap])
        /\ pc' = "fs_branch"
        /\ UNCHANGED <<retErr, errRange, failedOp>>
     \/ /\ CanFail
        /\ failedOp' = "CreateOrUpdateRepository"
        /\ errRange' = <<>>
        /\ FirestoreFails(Wrap(Wrap(ErrIO, "failed to create or update repository"),
                               "failed to create or update repository"))
        /\ UNCHANGED repos
  /\ UNCHANGED <<cfg, streams, server, procs, trivyDB, bqStore, nextScanID, callVars, tblLocals, insLocals,
                 fsLocals, bqOps, prevDetected, base, prevFailed>>

\* CreateOrUpdateBranch that starts the branch over, without its targets.
CreateOrUpdateBranch_Replace ==
  /\ pc = "fs_branch"
  /\ fsOps' = fsOps \cup {<<"CreateOrUpdateBranch", NoTarget>>}
  /\ HasRepo
  /\ LET doc == [Name |-> meta.Branch, LastScanID |-> scanID,
                 LastScanAt |-> scanID, Status |-> ScanStatusSuccess,
                 CreatedAt |-> scanID, UpdatedAt |-> scanID]
     IN  repos' = [repos EXCEPT ![RepoID].branches =
                     Put(@, meta.Branch, [branch |-> doc, targets |-> EmptyMap])]
  /\ pc' = IF Len(report.Results) >= 1 THEN "fs_target" ELSE "done"
  /\ UNCHANGED <<retErr, errRange, failedOp>>
  /\ UNCHANGED <<cfg, streams, server, procs, trivyDB, bqStore, nextScanID, callVars, tblLocals, insLocals,
                 fsLocals, bqOps, prevDetected, base, prevFailed>>

CreateOrUpdateBranch ==
  /\ pc = "fs_branch"
  /\ fsOps' = fsOps \cup {<<"CreateOrUpdateBranch", NoTarget>>}
  /\ \/ /\ HasRepo
        /\ LET doc == [Name |-> meta.Branch, LastScanID |-> scanID,
                       LastScanAt |-> scanID, Status |-> ScanStatusSuccess,
                       CreatedAt |-> scanID, UpdatedAt |-> scanID]
               bs == repos[RepoID].branches
           IN  repos' = [repos EXCEPT ![RepoID].branches =
                           IF HasBranch
                           THEN [bs EXCEPT ![meta.Branch].branch = doc]
                           ELSE Put(bs, meta.Branch,
                                    [branch |-> doc, targets |-> EmptyMap])]
        /\ pc' = IF Len(report.Results) >= 1 THEN "fs_target" ELSE "done"
        /\ UNCHANGED <<retErr, errRange, failedOp>>
     \/ /\ CanFail \/ ~HasRepo
        /\ failedOp' = "CreateOrUpdateBranch"
        /\ errRange' = <<>>
        /\ FirestoreFails(Wrap(IF HasRepo THEN Wrap(ErrIO, "failed to create or update branch")
                                          ELSE Wrap(ErrNotFound, "repository not found"),
                               "failed to create or update branch"))
        /\ UNCHANGED repos
  /\ UNCHANGED <<cfg, streams, server, procs, trivyDB, bqStore, nextScanID, callVars, tblLocals, insLocals,
                 fsLocals, bqOps, prevDetected, base, prevFailed>>

\* CreateOrUpdateTarget that replaces the whole target entry.
CreateOrUpdateTarget_Replace ==
  /\ pc = "fs_target"
  /\ fsOps' = fsOps \cup {<<"CreateOrUpdateTarget", TargetIDAt(idx)>>}
  /\ HasBranch
  /\ LET t == TargetIDAt(idx)
         doc == [ID |-> t, Target |-> report.Results[idx].Target,
                 CreatedAt |-> scanID, UpdatedAt |-> scanID]
         ts == repos[RepoID].branches[meta.Branch].targets
     IN  repos' = [repos EXCEPT ![RepoID].branches[meta.Branch].targets =
                     Put(ts, t, [target |-> doc, vulns |-> EmptyMap])]
  /\ pc' = "fs_list"
  /\ UNCHANGED <<retErr, errRange, failedOp>>
  /\ UNCHANGED <<cfg, streams, server, procs, trivyDB, bqStore, nextScanID, callVars, tblLocals, insLocals,
                 fsLocals, bqOps, prevDetected, base, prevFailed>>

CreateOrUpdateTarget ==
  /\ pc = "fs_target"
  /\ fsOps' = fsOps \cup {<<"CreateOrUpdateTarget", TargetIDAt(idx)>>}
  /\ \/ /\ HasBranch
        /\ LET t == TargetIDAt(idx)
               doc == [ID |-> t, Target |-> report.Results[idx].Target,
                       CreatedAt |-> scanID, UpdatedAt |-> scanID]
               ts == repos[RepoID].branches[meta.Branch].targets
           IN  repos' = [repos EXCEPT ![RepoID].branches[meta.Branch].targets =
                           IF HasTarget(t)
                           THEN [ts EXCEPT ![t].target = doc]
                           ELSE Put(ts, t, [target |-> doc, vulns |-> EmptyMap])]
        /\ pc' = "fs_list"
        /\ UNCHANGED <<retErr, errRange, failedOp>>
     \/ /\ CanFail \/ ~HasBranch
        /\ failedOp' = "CreateOrUpdateTarget"
        /\ errRange' = <<>>
        /\ FirestoreFails(Wrap(IF HasBranch THEN Wrap(ErrIO, "failed to create or update target")
                                            ELSE Wrap(ErrNotFound, "branch not found"),
                               "failed to create or update target"))
        /\ UNCHANGED repos
  /\ UNCHANGED <<cfg, streams, server, procs, trivyDB, bqStore, nextScanID, callVars, tblLocals, insLocals,
                 fsLocals, bqOps, prevDetected, base, prevFailed>>

(***************************************************************************)
(* processVulnerabilities.                                                 *)
(***************************************************************************)
\* Position after the result at idx has been processed.
NextResult == IF idx < Len(report.Results) THEN "fs_target" ELSE "done"

\* ProcessFails that drops the error and ends the ingestion as a success.
ProcessFails_Skip(err) ==
  pc' = "done" /\ UNCHANGED retErr

ProcessFails(err) ==
  FirestoreFails(Wrap(err, "failed to process vulnerabilities"))

TargetExists(rid, b, t) ==
  /\ rid \in DOMAIN repos
  /\ b \in DOMAIN repos[rid].branches
  /\ t \in DOMAIN repos[rid].branches[b].targets

\* The error of the in-memory repository for a missing parent.
NotFoundErr(rid, b, t) ==
  IF rid \notin DOMAIN repos THEN Wrap(ErrNotFound, "repository not found")
  ELSE IF b \notin DOMAIN repos[rid].branches
  THEN Wrap(ErrNotFound, "branch not found")
  ELSE Wrap(ErrNotFound, "target not found")

\* ListOutcomes of a listing that finds nothing stored.
ListOutcomes_Empty(rid, b, t) == {[err |-> NoErr, vulns |-> EmptyMap]}

\* What ScanRepository.ListVulnerabilities returns.  A Firestore query on
\* the collection under a missing document iterates over nothing; the
\* in-memory repository looks the parents up and fails.
ListOutcomes(rid, b, t) ==
  (IF TargetExists(rid, b, t)
   THEN {[err |-> NoErr, vulns |-> repos[rid].branches[b].targets[t].vulns]}
   ELSE IF cfg.impl = "memory"
   THEN {[err |-> NotFoundErr(rid, b, t), vulns |-> EmptyMap]}
   ELSE {[err |-> NoErr, vulns |-> EmptyMap]})
  \cup (IF CanFail
        THEN {[err |-> Wrap(ErrIO, "failed to iterate vulnerabilities"),
               vulns |-> EmptyMap]}
        ELSE {})

\* ListVulnerabilities, then the in-memory diff up to the batch writes.
ListVulnerabilities ==
  /\ pc = "fs_list"
  /\ fsOps' = fsOps \cup {<<"ListVulnerabilities", TargetIDAt(idx)>>}
  /\ \E o \in ListOutcomes(RepoID, meta.Branch, TargetIDAt(idx)) :
       IF o.err = NoErr
       THEN /\ LET ex == o.vulns
                   det == report.Results[idx].Vulnerabilities
                   nv == NewVulnsOf(det, ex, scanID)
                   su == StatusUpdatesOf(det, ex)
               IN  /\ recIdx' = idx
                   /\ existingMap' = ex
                   /\ newVulns' = nv
                   /\ statusUpdates' = su
                   /\ pc' = IF Len(nv) > 0 THEN "fs_create"
                            ELSE IF DOMAIN su # {} THEN "fs_update"
                            ELSE NextResult
                   /\ idx' = IF Len(nv) = 0 /\ DOMAIN su = {}
                                /\ idx < Len(report.Results)
                             THEN idx + 1 ELSE idx
            /\ ci' = 0
            /\ updated' = {}
            /\ updateList' = <<>>
            /\ ui' = 0
            /\ commits' = <<>>
            /\ UNCHANGED <<retErr, errRange, failedOp>>
       ELSE /\ failedOp' = "ListVulnerabilities"
            /\ errRange' = <<>>
            /\ ProcessFails(Wrap(o.err, "failed to list existing vulnerabilities"))
            /\ UNCHANGED fsLocals
  /\ UNCHANGED <<cfg, streams, server, procs, trivyDB, bqStore, nextScanID, repos, callVars, tblLocals,
                 insLocals, bqOps, prevDetected, base, prevFailed>>

\* The target IDs a caller may list: the hashed ID of a target name, and
\* the name itself taken as an ID.
ListTargetIDs ==
  {ToTargetID(n) : n \in TargetNames} \cup {<<"plain", n>> : n \in TargetNames}

\* A caller other than InsertScanResult lists the vulnerabilities of a
\* target of the current repository and branch.
DirectList ==
  /\ pc = "idle"
  /\ cfg.repo
  /\ \E t \in ListTargetIDs :
       \E o \in ListOutcomes(RepoID, meta.Branch, t) :
         /\ existingMap' = o.vulns
         /\ retErr' = o.err
         /\ failedOp' = IF o.err = NoErr THEN "" ELSE "ListVulnerabilities"
         /\ fsOps' = {<<"ListVulnerabilities", t>>}
  /\ caller' = "direct"
  /\ pc' = "done"
  /\ errRange' = <<>>
  /\ bqOps' = {}
  /\ UNCHANGED <<cfg, streams, server, procs, trivyDB, bqStore, nextScanID, repos, meta, report, scanID,
                 tblLocals, insLocals, idx, recIdx, newVulns, statusUpdates,
                 ci, updated, updateList, ui, commits, prevDetected, base,
                 prevFailed>>

\* The vulnerabilities of a target after the documents of chunk are set.
SetVulns(old, chunk) ==
  LET ids == {chunk[i].ID : i \in DOMAIN chunk}
      last(id) == CHOOSE i \in DOMAIN chunk :
                    /\ chunk[i].ID = id
                    /\ \A j \in DOMAIN chunk : chunk[j].ID = id => j <= i
  IN  [id \in DOMAIN old \cup ids |->
         IF id \in ids THEN chunk[last(id)] ELSE old[id]]

\* ChunkEnd that puts the whole rest in one commit.
ChunkEnd_NoLimit(i, n) == n

\* End (exclusive, 0-based) of the chunk that starts at i.
ChunkEnd(i, n) ==
  IF cfg.impl = "memory" THEN n ELSE Min(i + batchSize, n)

\* BatchFails that reports no chunk range.
BatchFails_NoRange(op, msg, err, range) ==
  /\ failedOp' = op
  /\ errRange' = <<>>
  /\ ProcessFails(Wrap(Wrap(err, msg), msg))

\* A batch operation returns err, which carries the range of the chunk
\* whose commit failed, and processVulnerabilities returns it wrapped.
BatchFails(op, msg, err, range) ==
  /\ failedOp' = op
  /\ errRange' = range
  /\ ProcessFails(Wrap(Wrap(err, msg), msg))

\* One commit of BatchCreateVulnerabilities, or its return when there is
\* nothing to commit.
BatchCreateVulnerabilities ==
  /\ pc = "fs_create"
  /\ fsOps' = fsOps \cup {<<"BatchCreateVulnerabilities", TargetIDAt(idx)>>}
  /\ LET t == TargetIDAt(idx)
         n == Len(newVulns)
         end == ChunkEnd(ci, n)
         chunk == SubSeq(newVulns, ci + 1, end)
         last == end >= n
     IN  \/ /\ HasTarget(t)
            /\ IF ci < n
               THEN /\ repos' = [repos EXCEPT
                         ![RepoID].branches[meta.Branch].targets[t].vulns =
                            SetVulns(@, chunk)]
                    /\ ci' = end
                    /\ commits' = Append(commits, <<"create", ci, end>>)
               ELSE UNCHANGED <<repos, ci, commits>>
            /\ pc' = IF ~last THEN "fs_create"
                     ELSE IF DOMAIN statusUpdates # {} THEN "fs_update"
                     ELSE NextResult
            /\ idx' = IF last /\ DOMAIN statusUpdates = {}
                         /\ idx < Len(report.Results)
                      THEN idx + 1 ELSE idx
            /\ UNCHANGED <<retErr, errRange, failedOp>>
         \/ /\ (CanFail /\ ci < n) \/ ~HasTarget(t)
            /\ BatchFails("BatchCreateVulnerabilities",
                          "failed to batch create vulnerabilities",
                          IF HasTarget(t) THEN ErrIO ELSE ErrNotFound,
                          IF HasTarget(t) THEN <<ci, end>> ELSE <<>>)
            /\ UNCHANGED <<repos, ci, idx, commits>>
  /\ UNCHANGED <<cfg, streams, server, procs, trivyDB, bqStore, nextScanID, callVars, tblLocals, insLocals,
                 recIdx, existingMap, newVulns, statusUpdates, updated,
                 updateList, ui, bqOps, prevDetected, base, prevFailed>>

\* UpdateVulns that also restamps the creation time.
UpdateVulns_Recreate(old, ids) ==
  [id \in DOMAIN old |->
     IF id \in ids
     THEN [old[id] EXCEPT !.Status = statusUpdates[id], !.CreatedAt = scanID,
                          !.UpdatedAt = scanID]
     ELSE old[id]]

\* The vulnerabilities of a target after the status updates of ids.
UpdateVulns(old, ids) ==
  [id \in DOMAIN old |->
     IF id \in ids
     THEN IF cfg.impl = "firestore"
          THEN [old[id] EXCEPT !.Status = statusUpdates[id], !.UpdatedAt = scanID]
          ELSE [old[id] EXCEPT !.Status = statusUpdates[id]]
     ELSE old[id]]

\* The orders in which ranging over a map with keys S may list them.
Orders(S) == {f \in [1..Cardinality(S) -> S] : Range(f) = S}

\* The update list of the running BatchUpdateVulnerabilityStatus: the one
\* it has built, or any order of the map when it has not built one yet.
UpdateLists ==
  IF updateList # <<>> THEN {updateList} ELSE Orders(DOMAIN statusUpdates)

\* One commit of BatchUpdateVulnerabilityStatus, or its return when there
\* is nothing to commit.
BatchUpdateVulnerabilityStatus ==
  /\ pc = "fs_update"
  /\ fsOps' = fsOps \cup {<<"BatchUpdateVulnerabilityStatus", TargetIDAt(idx)>>}
  /\ \E ul \in UpdateLists :
       LET t == TargetIDAt(idx)
           n == Len(ul)
           end == ChunkEnd(ui, n)
           c == {ul[k] : k \in (ui + 1)..end}
           last == end >= n
       IN  /\ updateList' = ul
           /\ \/ /\ HasTarget(t)
                 /\ cfg.impl = "firestore" => c \subseteq DOMAIN VulnsOf(t)
                 /\ IF ui < n
                    THEN /\ repos' = [repos EXCEPT
                              ![RepoID].branches[meta.Branch].targets[t].vulns =
                                 UpdateVulns(@, c)]
                         /\ updated' = updated \cup c
                         /\ ui' = end
                         /\ commits' = Append(commits, <<"update", ui, end>>)
                    ELSE UNCHANGED <<repos, updated, ui, commits>>
                 /\ pc' = IF ~last THEN "fs_update" ELSE NextResult
                 /\ idx' = IF last /\ idx < Len(report.Results)
                           THEN idx + 1 ELSE idx
                 /\ UNCHANGED <<retErr, errRange, failedOp>>
              \/ /\ (CanFail /\ ui < n) \/ ~HasTarget(t)
                 /\ BatchFails("BatchUpdateVulnerabilityStatus",
                               "failed to batch update vulnerability status",
                               IF HasTarget(t) THEN ErrIO ELSE ErrNotFound,
                               IF HasTarget(t) THEN <<ui, end>> ELSE <<>>)
                 /\ UNCHANGED <<repos, updated, ui, idx, commits>>
  /\ UNCHANGED <<cfg, streams, server, procs, trivyDB, bqStore, nextScanID, callVars, tblLocals, insLocals,
                 recIdx, existingMap, newVulns, statusUpdates, ci, bqOps,
                 prevDetected, base, prevFailed>>

(***************************************************************************)
(* The call returns to its caller; the next one may start.                 *)
(***************************************************************************)
BqCalls == {"GetMetadata", "CreateTable", "UpdateTable", "Insert"}
FsCalls == {"CreateOrUpdateRepository", "CreateOrUpdateBranch",
            "CreateOrUpdateTarget", "ListVulnerabilities",
            "BatchCreateVulnerabilities", "BatchUpdateVulnerabilityStatus"}

ReportTargets(r) == {ToTargetID(r.Results[i].Target) : i \in DOMAIN r.Results}

\* Every identity the report detects under target t.
DetectedAll(r, t) ==
  UNION {DetectedIDs(r.Results[i].Vulnerabilities) :
           i \in {j \in DOMAIN r.Results : ToTargetID(r.Results[j].Target) = t}}

Return ==
  /\ pc = "done"
  /\ pc' = "idle"
  /\ prevDetected' =
       IF caller = "direct" THEN prevDetected
       ELSE IF retErr = NoErr /\ cfg.repo
       THEN [t \in ReportTargets(report) |-> DetectedAll(report, t)]
       ELSE EmptyMap
  /\ caller' = "none"
  /\ report' = CHOOSE r \in Reports : r.Results = <<>> /\ Validate(r) = NoErr
  /\ scanID' = 0
  /\ retErr' = NoErr
  /\ failedOp' = ""
  /\ errRange' = <<>>
  /\ bqOps' = {}
  /\ fsOps' = {}
  /\ prevFailed' = IF caller = "direct" THEN prevFailed
                   ELSE IF failedOp \in FsCalls THEN <<meta, report>>
                   ELSE <<>>
  /\ ResetLocals
  /\ UNCHANGED <<cfg, streams, server, procs, trivyDB, bqStore, nextScanID, repos, meta, base>>

Next ==
  \/ InsertScanResult
  \/ GetMetadata
  \/ CreateTable
  \/ UpdateTable
  \/ Propagate
  \/ attemptInsert
  \/ DirectInsert
  \/ CreateOrUpdateRepository
  \/ CreateOrUpdateBranch
  \/ CreateOrUpdateTarget
  \/ ListVulnerabilities
  \/ BatchCreateVulnerabilities
  \/ BatchUpdateVulnerabilityStatus
  \/ Return

Spec == Init /\ [][Next]_vars

(***************************************************************************)
(* The analytical step alone, on a table that may exist before the first   *)
(* ingestion: created by an earlier deployment, it can hold fields the     *)
(* scans of this one do not infer, in any order.                           *)
(***************************************************************************)
StoredSchemas ==
  {<<"id">>, <<"id", "results">>, <<"id", "packages">>, <<"packages", "id">>,
   <<"results", "packages", "id">>}

TableInit ==
  /\ cfg = [bq |-> TRUE, repo |-> FALSE, impl |-> "memory"]
  /\ table \in {NoTable} \cup {TableOf(s) : s \in StoredSchemas}
  /\ writerView = table
  /\ rows = [s \in 1..MaxScans |-> 0]
  /\ nextScanID = 1
  /\ repos = EmptyMap
  /\ pc = "idle"
  /\ caller = "none"
  /\ meta = CHOOSE m \in Metas : TRUE
  /\ report = CHOOSE r \in Reports : r.Results = <<>> /\ Validate(r) = NoErr
  /\ scanID = 0
  /\ schema = <<>>
  /\ schemaUpdated = FALSE
  /\ metaData = NoTable
  /\ enableRetry = FALSE
  /\ attempt = 0
  /\ backoff = initialBackoff
  /\ errs = <<>>
  /\ idx = 1
  /\ recIdx = 0
  /\ existingMap = EmptyMap
  /\ newVulns = <<>>
  /\ statusUpdates = EmptyMap
  /\ ci = 0
  /\ updated = {}
  /\ updateList = <<>>
  /\ ui = 0
  /\ commits = <<>>
  /\ retErr = NoErr
  /\ errRange = <<>>
  /\ failedOp = ""
  /\ bqOps = {}
  /\ fsOps = {}
  /\ prevDetected = EmptyMap
  /\ base = EmptyMap
  /\ prevFailed = <<>>
  /\ procs = NoProcs
  /\ trivyDB = "HIGH"
  /\ streams = 0
  /\ server = ServerUp

TableNext ==
  \/ InsertScanResult
  \/ GetMetadata
  \/ CreateTable
  \/ UpdateTable
  \/ Propagate
  \/ attemptInsert
  \/ Return

TableSpec == TableInit /\ [][TableNext]_vars

(***************************************************************************)
(* bq.Client.Insert with attemptInsert taken call by call: the managed     *)
(* stream is opened, rows are appended, the result is awaited and the      *)
(* deferred safe.Close runs as attemptInsert returns.  streams counts the  *)
(* managed streams opened and not yet closed; errs[Len(errs)] is the       *)
(* error the current attempt returns.                                      *)
(***************************************************************************)
StreamInit ==
  /\ cfg = [bq |-> TRUE, repo |-> FALSE, impl |-> "memory"]
  /\ table \in {NoTable} \cup {TableOf(s) : s \in StoredSchemas}
  /\ writerView \in {NoTable, table}
  /\ rows = [s \in 1..MaxScans |-> 0]
  /\ nextScanID = 1
  /\ repos = EmptyMap
  /\ pc = "idle"
  /\ caller = "none"
  /\ meta = CHOOSE m \in Metas : TRUE
  /\ report = CHOOSE r \in Reports : r.Results = <<>> /\ Validate(r) = NoErr
  /\ scanID = 0
  /\ schema = <<>>
  /\ schemaUpdated = FALSE
  /\ metaData = NoTable
  /\ enableRetry = FALSE
  /\ attempt = 0
  /\ backoff = initialBackoff
  /\ errs = <<>>
  /\ idx = 1
  /\ recIdx = 0
  /\ existingMap = EmptyMap
  /\ newVulns = <<>>
  /\ statusUpdates = EmptyMap
  /\ ci = 0
  /\ updated = {}
  /\ updateList = <<>>
  /\ ui = 0
  /\ commits = <<>>
  /\ retErr = NoErr
  /\ errRange = <<>>
  /\ failedOp = ""
  /\ bqOps = {}
  /\ fsOps = {}
  /\ prevDetected = EmptyMap
  /\ base = EmptyMap
  /\ prevFailed = <<>>
  /\ procs = NoProcs
  /\ trivyDB = "HIGH"
  /\ streams = 0
  /\ server = ServerUp

\* CloseStream that closes the stream only after a successful attempt.
CloseStream_OnSuccess(n, err) == IF err = NoErr THEN n - 1 ELSE n

\* The deferred safe.Close(ms): the stream is closed whatever the attempt
\* returns.
CloseStream(n, err) == n - 1

\* A caller invokes Insert with a schema and WithRetry(retry).
InsertCall ==
  /\ pc = "idle"
  /\ nextScanID <= MaxScans
  /\ \E s \in Schemas, retry \in BOOLEAN :
       /\ schema' = s
       /\ enableRetry' = retry
  /\ caller' = "direct"
  /\ scanID' = nextScanID
  /\ nextScanID' = nextScanID + 1
  /\ pc' = "ms_open"
  /\ retErr' = NoErr
  /\ failedOp' = ""
  /\ errRange' = <<>>
  /\ bqOps' = {"Insert"}
  /\ fsOps' = {}
  /\ UNCHANGED <<cfg, streams, server, procs, trivyDB, bqStore, repos, meta,
                 report, schemaUpdated, metaData, attempt, backoff, errs,
                 fsLocals, prevDetected, base, prevFailed>>

\* Insert acts on the error err an attempt returned.
AfterAttempt(err) ==
  LET d == InsertDecision(err, enableRetry, attempt)
  IN  IF err = NoErr
      THEN /\ InsertReturns(NoErr)
           /\ UNCHANGED <<attempt, backoff, failedOp>>
      ELSE IF d = "retry"
      THEN /\ pc' = "ms_open"
           /\ attempt' = attempt + 1
           /\ backoff' = NextBackoff(backoff)
           /\ UNCHANGED <<retErr, failedOp>>
      ELSE /\ InsertReturns(IF d = "exhausted"
                            THEN Wrap(err, "failed to insert after retries")
                            ELSE err)
           /\ failedOp' = "Insert"
           /\ UNCHANGED <<attempt, backoff>>

\* mwClient.NewManagedStream: on failure attemptInsert returns before the
\* defer is registered and no stream exists.
NewManagedStream ==
  /\ pc = "ms_open"
  /\ \/ /\ streams' = streams + 1
        /\ pc' = "ms_append"
        /\ UNCHANGED <<insLocals, retErr, failedOp>>
     \/ LET err == Wrap(ErrIO, "failed to create managed stream")
        IN  /\ errs' = Append(errs, err)
            /\ AfterAttempt(err)
            /\ UNCHANGED <<streams, enableRetry>>
  /\ UNCHANGED <<cfg, server, procs, trivyDB, bqStore, nextScanID, repos,
                 callVars, tblLocals, fsLocals, errRange, bqOps, fsOps,
                 prevDetected, base, prevFailed>>

\* ms.AppendRows.
AppendRows ==
  /\ pc = "ms_append"
  /\ \/ /\ pc' = "ms_result"
        /\ UNCHANGED errs
     \/ /\ pc' = "ms_close"
        /\ errs' = Append(errs, Wrap(ErrIO, "failed to append rows"))
  /\ UNCHANGED <<cfg, streams, server, procs, trivyDB, bqStore, nextScanID,
                 repos, callVars, tblLocals, enableRetry, attempt, backoff,
                 fsLocals, retErr, errRange, failedOp, bqOps, fsOps,
                 prevDetected, base, prevFailed>>

\* arResult.FullResponse: the write path accepts the row or rejects it.
FullResponse ==
  /\ pc = "ms_result"
  /\ pc' = "ms_close"
  /\ \E o \in AttemptOutcomes(schema) :
       /\ errs' = Append(errs,
                    IF o = "ok" THEN NoErr
                    ELSE Wrap(IF o = "mismatch" THEN ErrSchemaMismatch ELSE ErrIO,
                              "failed to get append result"))
       /\ rows' = IF o = "ok" THEN [rows EXCEPT ![scanID] = @ + 1] ELSE rows
  /\ UNCHANGED <<cfg, streams, server, procs, trivyDB, table, writerView,
                 nextScanID, repos, callVars, tblLocals, enableRetry, attempt,
                 backoff, fsLocals, retErr, errRange, failedOp, bqOps, fsOps,
                 prevDetected, base, prevFailed>>

\* attemptInsert returns: the deferred safe.Close(ms) runs, then Insert
\* looks at the error.
Close ==
  /\ pc = "ms_close"
  /\ streams' = CloseStream(streams, errs[Len(errs)])
  /\ AfterAttempt(errs[Len(errs)])
  /\ UNCHANGED <<cfg, server, procs, trivyDB, bqStore, nextScanID, repos,
                 callVars, tblLocals, enableRetry, errs, fsLocals, errRange,
                 bqOps, fsOps, prevDetected, base, prevFailed>>

StreamNext ==
  \/ InsertCall
  \/ NewManagedStream
  \/ AppendRows
  \/ FullResponse
  \/ Close
  \/ Propagate
  \/ Return

StreamSpec == StreamInit /\ [][StreamNext]_vars

(***************************************************************************)
(* The use case built without a BigQuery client, beside a caller that      *)
(* lists vulnerabilities through the repository directly.                  *)
(***************************************************************************)
RepoInit == Init /\ ~cfg.bq /\ cfg.repo

RepoNext ==
  \/ InsertScanResult
  \/ CreateOrUpdateRepository
  \/ CreateOrUpdateBranch
  \/ CreateOrUpdateTarget
  \/ ListVulnerabilities
  \/ DirectList
  \/ BatchCreateVulnerabilities
  \/ BatchUpdateVulnerabilityStatus
  \/ Return

RepoSpec == RepoInit /\ [][RepoNext]_vars

(***************************************************************************)
(* The same use case while the vulnerability database is updated between   *)
(* ingestions and rates the known vulnerabilities differently.             *)
(***************************************************************************)
UpdateDB ==
  /\ pc = "idle"
  /\ trivyDB' \in Severities \ {trivyDB}
  /\ UNCHANGED <<cfg, streams, server, procs, bqStore, nextScanID, repos, pc, callVars,
                 tblLocals, insLocals, fsLocals, retErr, errRange, failedOp,
                 bqOps, fsOps, prevDetected, base, prevFailed>>

RatingNext ==
  \/ InsertScanResult
  \/ UpdateDB
  \/ CreateOrUpdateRepository
  \/ CreateOrUpdateBranch
  \/ CreateOrUpdateTarget
  \/ ListVulnerabilities
  \/ BatchCreateVulnerabilities
  \/ BatchUpdateVulnerabilityStatus
  \/ Return

RatingSpec == RepoInit /\ [][RatingNext]_vars

(***************************************************************************)
(* The use case beside a caller that updates statuses through the          *)
(* repository directly, with a map that may name vulnerabilities the       *)
(* target does not hold.                                                   *)
(***************************************************************************)
UpdateMaps ==
  LET ids == {VulnID(d) : d \in DetectedVulnsOf("HIGH")}
  IN  UNION {[S -> {VulnStatusActive, VulnStatusFixed}] :
               S \in (SUBSET ids) \ {{}}}

\* What BatchUpdateVulnerabilityStatus of implementation impl returns for
\* the updates su on a target holding old, when the store is reachable:
\* the in-memory repository sets the status of the IDs it finds; the
\* Firestore repository commits one batch of document updates, and an
\* update of a document that does not exist fails the commit.
UpdateResult(impl, old, su, timestamp) ==
  IF impl = "memory"
  THEN [err |-> NoErr,
        vulns |-> [id \in DOMAIN old |->
                     IF id \in DOMAIN su
                     THEN [old[id] EXCEPT !.Status = su[id]] ELSE old[id]]]
  ELSE IF DOMAIN su \subseteq DOMAIN old
  THEN [err |-> NoErr,
        vulns |-> [id \in DOMAIN old |->
                     IF id \in DOMAIN su
                     THEN [old[id] EXCEPT !.Status = su[id],
                                          !.UpdatedAt = timestamp]
                     ELSE old[id]]]
  ELSE [err |-> Wrap(<<"NotFound: no document to update">>,
                     "failed to batch update vulnerability status"),
        vulns |-> old]

\* A caller other than InsertScanResult updates statuses under a stored
\* target of the current repository and branch.  The call takes the next
\* tick of the clock that numbers the scans, which bounds the calls.
DirectUpdate ==
  /\ pc = "idle"
  /\ nextScanID <= MaxScans
  /\ cfg.repo
  /\ HasBranch
  /\ \E t \in DOMAIN repos[RepoID].branches[meta.Branch].targets,
        su \in UpdateMaps :
       LET old == VulnsOf(t)
           unavailable ==
             [err |-> Wrap(ErrIO, "failed to batch update vulnerability status"),
              vulns |-> old]
       IN  \E o \in {UpdateResult(cfg.impl, old, su, nextScanID)}
                     \cup (IF CanFail THEN {unavailable} ELSE {}) :
             /\ repos' = [repos EXCEPT
                            ![RepoID].branches[meta.Branch].targets[t].vulns =
                               o.vulns]
             /\ retErr' = o.err
             /\ failedOp' = IF o.err = NoErr THEN ""
                            ELSE "BatchUpdateVulnerabilityStatus"
             /\ existingMap' = old
             /\ statusUpdates' = su
             /\ fsOps' = {<<"BatchUpdateVulnerabilityStatus", t>>}
  /\ caller' = "direct"
  /\ pc' = "done"
  /\ errRange' = <<>>
  /\ bqOps' = {}
  /\ nextScanID' = nextScanID + 1
  /\ UNCHANGED <<cfg, streams, server, procs, trivyDB, bqStore, meta, report, scanID,
                 tblLocals, insLocals, idx, recIdx, newVulns, ci, updated,
                 updateList, ui, commits, prevDetected, base, prevFailed>>

UpdateNext ==
  \/ InsertScanResult
  \/ CreateOrUpdateRepository
  \/ CreateOrUpdateBranch
  \/ CreateOrUpdateTarget
  \/ ListVulnerabilities
  \/ BatchCreateVulnerabilities
  \/ BatchUpdateVulnerabilityStatus
  \/ DirectUpdate
  \/ Return

UpdateSpec == RepoInit /\ [][UpdateNext]_vars

(***************************************************************************)
(* The same use case on scans of a project with two manifests: a report    *)
(* names none, one or both of them, in either order, each with at most one *)
(* vulnerability.                                                          *)
(***************************************************************************)
ManifestNames == {"go.mod", "package.json"}

ManifestResults ==
  {[Target |-> t, Vulnerabilities |-> vs] :
      t \in ManifestNames, vs \in SeqsUpTo(DetectedVulnsOf("HIGH"), 1)}

ManifestReports ==
  {[SchemaVersion |-> 2, ArtifactName |-> "widgets", ResultsNil |-> FALSE,
    Results |-> rs] : rs \in SeqsUpTo(ManifestResults, MaxResults)}

InsertManifestScan == InsertScanResultOf(ManifestReports)

ManifestNext ==
  \/ InsertManifestScan
  \/ CreateOrUpdateRepository
  \/ CreateOrUpdateBranch
  \/ CreateOrUpdateTarget
  \/ ListVulnerabilities
  \/ BatchCreateVulnerabilities
  \/ BatchUpdateVulnerabilityStatus
  \/ Return

ManifestSpec == RepoInit /\ [][ManifestNext]_vars

(***************************************************************************)
(* The repository's writes as functions of the store, and with them the    *)
(* store a failure-free insertToFirestore leaves.                          *)
(***************************************************************************)
RepoDoc(m, timestamp) ==
  [ID |-> GitHubRepoID(m), CreatedAt |-> timestamp, UpdatedAt |-> timestamp]

BranchDoc(m, timestamp) ==
  [Name |-> m.Branch, LastScanID |-> timestamp, LastScanAt |-> timestamp,
   Status |-> ScanStatusSuccess, CreatedAt |-> timestamp,
   UpdatedAt |-> timestamp]

TargetDoc(target, timestamp) ==
  [ID |-> ToTargetID(target), Target |-> target, CreatedAt |-> timestamp,
   UpdatedAt |-> timestamp]

\* PutRepository that starts the repository over.
PutRepository_Replace(s, rid, doc) ==
  Put(s, rid, [repo |-> doc, branches |-> EmptyMap])

PutRepository(s, rid, doc) ==
  IF rid \in DOMAIN s THEN [s EXCEPT ![rid].repo = doc]
  ELSE Put(s, rid, [repo |-> doc, branches |-> EmptyMap])

PutBranch(s, rid, b, doc) ==
  LET bs == s[rid].branches
  IN  [s EXCEPT ![rid].branches =
         IF b \in DOMAIN bs THEN [bs EXCEPT ![b].branch = doc]
         ELSE Put(bs, b, [branch |-> doc, targets |-> EmptyMap])]

PutTarget(s, rid, b, t, doc) ==
  LET ts == s[rid].branches[b].targets
  IN  [s EXCEPT ![rid].branches[b].targets =
         IF t \in DOMAIN ts THEN [ts EXCEPT ![t].target = doc]
         ELSE Put(ts, t, [target |-> doc, vulns |-> EmptyMap])]

PutVulns(s, rid, b, t, chunk) ==
  [s EXCEPT ![rid].branches[b].targets[t].vulns = SetVulns(@, chunk)]

\* The status updates su applied to the IDs ids of a target.
SetStatus(s, rid, b, t, su, ids, timestamp) ==
  LET old == s[rid].branches[b].targets[t].vulns
  IN  [s EXCEPT ![rid].branches[b].targets[t].vulns =
         [id \in DOMAIN old |->
            IF id \in ids
            THEN IF cfg.impl = "firestore"
                 THEN [old[id] EXCEPT !.Status = su[id], !.UpdatedAt = timestamp]
                 ELSE [old[id] EXCEPT !.Status = su[id]]
            ELSE old[id]]]

\* The loop of insertToFirestore over the results rs, no call failing.
RECURSIVE ReconcileResults(_, _, _, _)
ReconcileResults(s, m, rs, timestamp) ==
  IF rs = <<>> THEN s
  ELSE LET rid == GitHubRepoID(m)
           t == ToTargetID(Head(rs).Target)
           s1 == PutTarget(s, rid, m.Branch, t,
                           TargetDoc(Head(rs).Target, timestamp))
           ex == s1[rid].branches[m.Branch].targets[t].vulns
           nv == NewVulnsOf(Head(rs).Vulnerabilities, ex, timestamp)
           su == StatusUpdatesOf(Head(rs).Vulnerabilities, ex)
           s2 == PutVulns(s1, rid, m.Branch, t, nv)
           s3 == SetStatus(s2, rid, m.Branch, t, su, DOMAIN su, timestamp)
       IN  ReconcileResults(s3, m, Tail(rs), timestamp)

\* The store after insertToFirestore(m, r) ran on s with no call failing.
RunAlone(s, m, r, timestamp) ==
  LET rid == GitHubRepoID(m)
      s1 == PutRepository(s, rid, RepoDoc(m, timestamp))
      s2 == PutBranch(s1, rid, m.Branch, BranchDoc(m, timestamp))
  IN  ReconcileResults(s2, m, r.Results, timestamp)

(***************************************************************************)
(* The batch operations on lists longer than a batch.  The ingestion of a  *)
(* report with one result is about to call BatchCreateVulnerabilities with *)
(* n new vulnerabilities ("create"), or BatchUpdateVulnerabilityStatus     *)
(* with n stored vulnerabilities the scan no longer detects ("update"),    *)
(* its update list built in ascending or in descending order.              *)
(***************************************************************************)
ItemCounts ==
  {n \in 0..MaxItems :
     n = MaxItems \/ n % 100 = 0 \/ n % batchSize \in {1, batchSize - 1}}

Item(i) ==
  [VulnerabilityID |-> i, PkgName |-> "left-pad", PkgPath |-> "",
   PkgID |-> "left-pad@1.0.0", Severity |-> "HIGH"]

StoredItem(i, status, timestamp) ==
  [NewVulnerability(Item(i)) EXCEPT !.Status = status,
                                    !.CreatedAt = timestamp,
                                    !.UpdatedAt = timestamp]

\* A store with one repository, branch and target, upserted at timestamp,
\* the target holding vulns.
StoreOf(m, target, timestamp, vulns) ==
  LET repoDoc == [ID |-> GitHubRepoID(m), CreatedAt |-> timestamp,
                  UpdatedAt |-> timestamp]
      branchDoc == [Name |-> m.Branch, LastScanID |-> timestamp,
                    LastScanAt |-> timestamp, Status |-> ScanStatusSuccess,
                    CreatedAt |-> timestamp, UpdatedAt |-> timestamp]
      targetDoc == [ID |-> ToTargetID(target), Target |-> target,
                    CreatedAt |-> timestamp, UpdatedAt |-> timestamp]
      targets == Put(EmptyMap, ToTargetID(target),
                     [target |-> targetDoc, vulns |-> vulns])
      branches == Put(EmptyMap, m.Branch,
                      [branch |-> branchDoc, targets |-> targets])
  IN  Put(EmptyMap, GitHubRepoID(m), [repo |-> repoDoc, branches |-> branches])

BatchInit ==
  /\ cfg \in {[bq |-> FALSE, repo |-> TRUE, impl |-> i] :
                i \in {"memory", "firestore"}}
  /\ \E n \in ItemCounts, mode \in {"create", "update"}, m \in Metas,
        target \in TargetNames, asc \in BOOLEAN :
       LET ids == {VulnID(Item(i)) : i \in 1..n}
           stored == [id \in ids |-> StoredItem(id[1], VulnStatusActive, 0)]
           ex == IF mode = "create" THEN EmptyMap ELSE stored
           det == IF mode = "create" THEN [i \in 1..n |-> Item(i)] ELSE <<>>
       IN  /\ mode = "create" => asc
           /\ meta = m
           /\ report = [SchemaVersion |-> 2, ArtifactName |-> "widgets",
                        ResultsNil |-> FALSE,
                        Results |-> <<[Target |-> target,
                                       Vulnerabilities |-> det]>>]
           /\ repos = StoreOf(m, target, 1, ex)
           /\ base = IF mode = "create" THEN EmptyMap
                     ELSE StoreOf(m, target, 0, ex)
           /\ existingMap = ex
           /\ newVulns = [i \in 1..Len(det) |->
                            StoredItem(i, VulnStatusActive, 1)]
           /\ statusUpdates = [id \in DOMAIN ex |-> VulnStatusFixed]
           /\ updateList = IF mode = "create" THEN <<>>
                           ELSE [i \in 1..n |->
                                   VulnID(Item(IF asc THEN i ELSE n + 1 - i))]
           /\ pc = IF mode = "create" THEN "fs_create" ELSE "fs_update"
           /\ fsOps = {<<"CreateOrUpdateRepository", NoTarget>>,
                       <<"CreateOrUpdateBranch", NoTarget>>,
                       <<"CreateOrUpdateTarget", ToTargetID(target)>>,
                       <<"ListVulnerabilities", ToTargetID(target)>>}
  /\ table = NoTable
  /\ writerView = NoTable
  /\ rows = [s \in 1..MaxScans |-> 0]
  /\ nextScanID = 2
  /\ caller = "usecase"
  /\ scanID = 1
  /\ schema = <<>>
  /\ schemaUpdated = FALSE
  /\ metaData = NoTable
  /\ enableRetry = FALSE
  /\ attempt = 0
  /\ backoff = initialBackoff
  /\ errs = <<>>
  /\ idx = 1
  /\ recIdx = 1
  /\ ci = 0
  /\ updated = {}
  /\ ui = 0
  /\ commits = <<>>
  /\ retErr = NoErr
  /\ errRange = <<>>
  /\ failedOp = ""
  /\ bqOps = {}
  /\ prevDetected = EmptyMap
  /\ prevFailed = <<>>
  /\ procs = NoProcs
  /\ trivyDB = "HIGH"
  /\ streams = 0
  /\ server = ServerUp

BatchNext ==
  \/ BatchCreateVulnerabilities
  \/ BatchUpdateVulnerabilityStatus

BatchSpec == BatchInit /\ [][BatchNext]_vars

(***************************************************************************)
(* The webhook server.  The handler of POST /webhook/github/app starts one *)
(* goroutine per push event; each scans its commit and ingests the report  *)
(* into the relational store the goroutines share.  procs holds, for each  *)
(* goroutine, its position and the locals of insertToFirestore and         *)
(* processVulnerabilities; one repository call is one step.                *)
(***************************************************************************)
Procs == {"g1", "g2"}

ConcMetas ==
  {[Owner |-> "acme", RepoName |-> "widgets", Branch |-> "main"],
   [Owner |-> "acme", RepoName |-> "widgets", Branch |-> "dev"],
   [Owner |-> "acme", RepoName |-> "gadgets", Branch |-> "main"]}

\* What the scan of a pushed commit reports: a valid report of one result
\* at most.
ConcReports ==
  {r \in ReportsRated("HIGH") : Validate(r) = NoErr /\ Len(r.Results) <= 1}

\* Contexts: what cancels them and the request ID they carry.  The context
\* of a request is cancelled when its handler returns.
NoContext == [parent |-> "none", requestID |-> 0]
RequestContext(n) == [parent |-> "request", requestID |-> n]
Cancelled(ctx) == ctx.parent = "request"

\* DetachContext that derives the context from the request's.
DetachContext_Derived(ctx) == ctx

\* DetachContext: a context on context.Background() that inherits the
\* logger, the request ID and the time function.
DetachContext(ctx) == [ctx EXCEPT !.parent = "background"]

IdleProc ==
  [pc |-> "idle",
   meta |-> CHOOSE m \in ConcMetas : TRUE,
   report |-> CHOOSE r \in ConcReports : r.Results = <<>>,
   timestamp |-> 0, idx |-> 1, existingMap |-> EmptyMap, newVulns |-> <<>>,
   statusUpdates |-> EmptyMap, ci |-> 0, updateList |-> <<>>, ui |-> 0,
   ctx |-> NoContext, err |-> ""]

\* An earlier scan of every repository and branch found both
\* vulnerabilities in go.mod, and a later one only the first.
RECURSIVE Seeded(_, _)
Seeded(s, ms) ==
  IF ms = {} THEN s
  ELSE LET m == CHOOSE x \in ms : TRUE
           d1 == CHOOSE d \in DetectedVulnsOf("HIGH") :
                   d.VulnerabilityID = "CVE-2024-0001"
           d2 == CHOOSE d \in DetectedVulnsOf("HIGH") :
                   d.VulnerabilityID = "CVE-2024-0002"
           both == [Results |-> <<[Target |-> "go.mod",
                                   Vulnerabilities |-> <<d1, d2>>]>>]
           first == [Results |-> <<[Target |-> "go.mod",
                                    Vulnerabilities |-> <<d1>>]>>]
       IN  Seeded(RunAlone(RunAlone(s, m, both, 0), m, first, 0), ms \ {m})

\* The server starts with no goroutine running, on an empty store or on
\* one that earlier scans have filled.
ConcInit ==
  /\ cfg \in {[bq |-> FALSE, repo |-> TRUE, impl |-> i] :
                i \in {"memory", "firestore"}}
  /\ repos \in {EmptyMap, Seeded(EmptyMap, ConcMetas)}
  /\ base = repos
  /\ procs = [p \in Procs |-> IdleProc]
  /\ trivyDB = "HIGH"
  /\ streams = 0
  /\ server = ServerUp
  /\ table = NoTable
  /\ writerView = NoTable
  /\ rows = [s \in 1..MaxScans |-> 0]
  /\ nextScanID = 1
  /\ pc = "idle"
  /\ caller = "none"
  /\ meta = CHOOSE m \in Metas : TRUE
  /\ report = CHOOSE r \in Reports : r.Results = <<>> /\ Validate(r) = NoErr
  /\ scanID = 0
  /\ schema = <<>>
  /\ schemaUpdated = FALSE
  /\ metaData = NoTable
  /\ enableRetry = FALSE
  /\ attempt = 0
  /\ backoff = initialBackoff
  /\ errs = <<>>
  /\ idx = 1
  /\ recIdx = 0
  /\ existingMap = EmptyMap
  /\ newVulns = <<>>
  /\ statusUpdates = EmptyMap
  /\ ci = 0
  /\ updated = {}
  /\ updateList = <<>>
  /\ ui = 0
  /\ commits = <<>>
  /\ retErr = NoErr
  /\ errRange = <<>>
  /\ failedOp = ""
  /\ bqOps = {}
  /\ fsOps = {}
  /\ prevDetected = EmptyMap
  /\ prevFailed = <<>>

ProcRepoID(p) == GitHubRepoID(procs[p].meta)
ProcBranch(p) == procs[p].meta.Branch
ProcTargetID(p) == ToTargetID(procs[p].report.Results[procs[p].idx].Target)
InFlight(p) == procs[p].pc \notin {"idle", "done", "failed"}

\* Position and result index after the result at idx has been processed.
ProcAdvance(q) ==
  IF q.idx < Len(q.report.Results)
  THEN [q EXCEPT !.pc = "fs_target", !.idx = q.idx + 1]
  ELSE [q EXCEPT !.pc = "done"]

\* What the goroutines leave alone.
concFrame ==
  <<cfg, trivyDB, streams, bqStore, pc, callVars, tblLocals, insLocals, fsLocals,
    retErr, errRange, failedOp, bqOps, fsOps, prevDetected, base, prevFailed>>

\* The process is running: its goroutines take steps.
Alive == server.state # "exited"

\* Goroutine q after a repository call failed.
FailedProc(q) ==
  [q EXCEPT !.pc = "failed",
            !.err = IF Cancelled(q.ctx) THEN "context canceled"
                    ELSE "store error"]

\* The handler accepts a push event, starts a goroutine for it under a
\* detached context and answers 202.
Webhook(p) ==
  /\ server.state = "serving"
  /\ procs[p].pc = "idle"
  /\ \E m \in ConcMetas, r \in ConcReports :
       procs' = [procs EXCEPT ![p] =
                   [IdleProc EXCEPT !.pc = "fs_repo", !.meta = m, !.report = r,
                                    !.timestamp = nextScanID,
                                    !.ctx = DetachContext(RequestContext(nextScanID))]]
  /\ server' = [server EXCEPT !.accepted = @ + 1, !.last = 202]
  /\ nextScanID' = nextScanID + 1
  /\ UNCHANGED <<repos, concFrame>>

\* A repository call of goroutine p failed: the goroutine logs and ends.
GoFails(p) ==
  /\ CanFail
  /\ procs' = [procs EXCEPT ![p] = FailedProc(procs[p])]
  /\ UNCHANGED repos

GoCreateOrUpdateRepository(p) ==
  /\ Alive
  /\ procs[p].pc = "fs_repo"
  /\ \/ /\ repos' = PutRepository(repos, ProcRepoID(p),
                                  RepoDoc(procs[p].meta, procs[p].timestamp))
        /\ procs' = [procs EXCEPT ![p].pc = "fs_branch"]
     \/ GoFails(p)
  /\ UNCHANGED <<nextScanID, server, concFrame>>

GoCreateOrUpdateBranch(p) ==
  /\ Alive
  /\ procs[p].pc = "fs_branch"
  /\ \/ /\ ProcRepoID(p) \in DOMAIN repos
        /\ repos' = PutBranch(repos, ProcRepoID(p), ProcBranch(p),
                              BranchDoc(procs[p].meta, procs[p].timestamp))
        /\ procs' = [procs EXCEPT ![p].pc =
                       IF Len(procs[p].report.Results) >= 1
                       THEN "fs_target" ELSE "done"]
     \/ GoFails(p)
  /\ UNCHANGED <<nextScanID, server, concFrame>>

GoCreateOrUpdateTarget(p) ==
  /\ Alive
  /\ procs[p].pc = "fs_target"
  /\ \/ /\ repos' = PutTarget(repos, ProcRepoID(p), ProcBranch(p),
                              ProcTargetID(p),
                              TargetDoc(procs[p].report.Results[procs[p].idx].Target,
                                        procs[p].timestamp))
        /\ procs' = [procs EXCEPT ![p].pc = "fs_list"]
     \/ GoFails(p)
  /\ UNCHANGED <<nextScanID, server, concFrame>>

GoListVulnerabilities(p) ==
  /\ Alive
  /\ procs[p].pc = "fs_list"
  /\ \E o \in ListOutcomes(ProcRepoID(p), ProcBranch(p), ProcTargetID(p)) :
       IF o.err = NoErr
       THEN LET q == procs[p]
                det == q.report.Results[q.idx].Vulnerabilities
                nv == NewVulnsOf(det, o.vulns, q.timestamp)
                su == StatusUpdatesOf(det, o.vulns)
                q1 == [q EXCEPT !.existingMap = o.vulns, !.newVulns = nv,
                                !.statusUpdates = su, !.ci = 0,
                                !.updateList = <<>>, !.ui = 0]
            IN  procs' = [procs EXCEPT ![p] =
                            IF Len(nv) > 0 THEN [q1 EXCEPT !.pc = "fs_create"]
                            ELSE IF DOMAIN su # {}
                            THEN [q1 EXCEPT !.pc = "fs_update"]
                            ELSE ProcAdvance(q1)]
       ELSE procs' = [procs EXCEPT ![p] = FailedProc(procs[p])]
  /\ UNCHANGED <<repos, nextScanID, server, concFrame>>

GoBatchCreateVulnerabilities(p) ==
  /\ Alive
  /\ procs[p].pc = "fs_create"
  /\ \/ LET q == procs[p]
            end == ChunkEnd(q.ci, Len(q.newVulns))
            q1 == [q EXCEPT !.ci = end]
        IN  /\ repos' = PutVulns(repos, ProcRepoID(p), ProcBranch(p),
                                 ProcTargetID(p),
                                 SubSeq(q.newVulns, q.ci + 1, end))
            /\ procs' = [procs EXCEPT ![p] =
                           IF end < Len(q.newVulns) THEN q1
                           ELSE IF DOMAIN q.statusUpdates # {}
                           THEN [q1 EXCEPT !.pc = "fs_update"]
                           ELSE ProcAdvance(q1)]
     \/ GoFails(p)
  /\ UNCHANGED <<nextScanID, server, concFrame>>

GoBatchUpdateVulnerabilityStatus(p) ==
  /\ Alive
  /\ procs[p].pc = "fs_update"
  /\ \/ \E ul \in IF procs[p].updateList # <<>> THEN {procs[p].updateList}
                  ELSE Orders(DOMAIN procs[p].statusUpdates) :
          LET q == procs[p]
              end == ChunkEnd(q.ui, Len(ul))
              c == {ul[k] : k \in (q.ui + 1)..end}
              q1 == [q EXCEPT !.updateList = ul, !.ui = end]
          IN  /\ repos' = SetStatus(repos, ProcRepoID(p), ProcBranch(p),
                                    ProcTargetID(p), q.statusUpdates, c,
                                    q.timestamp)
              /\ procs' = [procs EXCEPT ![p] =
                             IF end < Len(ul) THEN q1 ELSE ProcAdvance(q1)]
     \/ GoFails(p)
  /\ UNCHANGED <<nextScanID, server, concFrame>>

ConcNext ==
  \E p \in Procs :
    \/ Webhook(p)
    \/ GoCreateOrUpdateRepository(p)
    \/ GoCreateOrUpdateBranch(p)
    \/ GoCreateOrUpdateTarget(p)
    \/ GoListVulnerabilities(p)
    \/ GoBatchCreateVulnerabilities(p)
    \/ GoBatchUpdateVulnerabilityStatus(p)

ConcSpec == ConcInit /\ [][ConcNext]_vars

(***************************************************************************)
(* The serve command around the handler: it answers the events that start  *)
(* no scan as well, and on SIGINT or SIGTERM shuts the HTTP server down     *)
(* and returns, which ends the process and the goroutines with it.         *)
(***************************************************************************)
\* The handler's answer to an event it does not scan: 500 for one that
\* fails validation, 200 for one that needs no scan.
WebhookIgnored ==
  /\ server.state = "serving"
  /\ \E code \in {200, 500} \ {server.last} :
       server' = [server EXCEPT !.last = code]
  /\ UNCHANGED <<repos, procs, nextScanID, concFrame>>

\* The signal arrives: serveCommand calls httpServer.Shutdown, which
\* closes the listeners.
Sigterm ==
  /\ server.state = "serving"
  /\ server' = [server EXCEPT !.state = "shutdown"]
  /\ UNCHANGED <<repos, procs, nextScanID, concFrame>>

\* Shutdown returns once no handler is running (every handler has answered
\* by then; the goroutines it started are not connections), the command
\* returns and the process exits.
Exit ==
  /\ server.state = "shutdown"
  /\ server' = [server EXCEPT !.state = "exited"]
  /\ UNCHANGED <<repos, procs, nextScanID, concFrame>>

ServeInit == ConcInit /\ repos = EmptyMap

ServeNext ==
  \/ ConcNext
  \/ WebhookIgnored
  \/ Sigterm
  \/ Exit

ServeSpec == ServeInit /\ [][ServeNext]_vars

(***************************************************************************)
(* createOrUpdateBigQueryTable run by two ingestions at once on one table. *)
(* The table carries the ETag of its current version; GetMetadata returns  *)
(* it with the schema, and BigQuery applies an update that names an ETag   *)
(* only to the version with that ETag.  procs holds, for each ingestion,   *)
(* its position and the locals of createOrUpdateBigQueryTable.             *)
(***************************************************************************)
Absent == [exists |-> FALSE, schema |-> <<>>, etag |-> 0]
Stored(s, e) == [exists |-> TRUE, schema |-> s, etag |-> e]

IdleCall ==
  [pc |-> "idle", schema |-> <<>>, metaData |-> Absent,
   schemaUpdated |-> FALSE, err |-> NoErr]

SchemaInit ==
  /\ cfg = [bq |-> TRUE, repo |-> FALSE, impl |-> "memory"]
  /\ table \in {Absent} \cup {Stored(s, 1) : s \in StoredSchemas}
  /\ writerView = NoTable
  /\ rows = [s \in 1..MaxScans |-> 0]
  /\ nextScanID = 1
  /\ repos = EmptyMap
  /\ pc = "idle"
  /\ caller = "none"
  /\ meta = CHOOSE m \in Metas : TRUE
  /\ report = CHOOSE r \in Reports : r.Results = <<>> /\ Validate(r) = NoErr
  /\ scanID = 0
  /\ schema = <<>>
  /\ schemaUpdated = FALSE
  /\ metaData = NoTable
  /\ enableRetry = FALSE
  /\ attempt = 0
  /\ backoff = initialBackoff
  /\ errs = <<>>
  /\ idx = 1
  /\ recIdx = 0
  /\ existingMap = EmptyMap
  /\ newVulns = <<>>
  /\ statusUpdates = EmptyMap
  /\ ci = 0
  /\ updated = {}
  /\ updateList = <<>>
  /\ ui = 0
  /\ commits = <<>>
  /\ retErr = NoErr
  /\ errRange = <<>>
  /\ failedOp = ""
  /\ bqOps = {}
  /\ fsOps = {}
  /\ prevDetected = EmptyMap
  /\ base = EmptyMap
  /\ prevFailed = <<>>
  /\ procs = [p \in Procs |-> IdleCall]
  /\ trivyDB = "HIGH"
  /\ streams = 0
  /\ server = ServerUp

\* What the concurrent table calls leave alone.
schemaFrame ==
  <<cfg, trivyDB, streams, server, writerView, rows, repos, pc, callVars,
    tblLocals, insLocals, fsLocals, retErr, errRange, failedOp, bqOps, fsOps,
    prevDetected, base, prevFailed>>

\* ETagMatches that accepts an update against any version.
ETagMatches_Any(tbl, etag) == TRUE

\* Table.Update(ctx, md, etag): the update applies to the version etag.
ETagMatches(tbl, etag) == tbl.etag = etag

\* createOrUpdateBigQueryTable returns err.
TableCallFails(q, err) == [q EXCEPT !.pc = "failed", !.err = err]

\* An ingestion enters createOrUpdateBigQueryTable and infers the schema
\* of its scan.
GoInfer(p) ==
  /\ procs[p].pc = "idle"
  /\ nextScanID <= MaxScans
  /\ \E r \in ConcReports :
       procs' = [procs EXCEPT ![p] =
                   [IdleCall EXCEPT !.pc = "bq_meta", !.schema = Infer(r)]]
  /\ nextScanID' = nextScanID + 1
  /\ UNCHANGED <<table, schemaFrame>>

GoGetMetadata(p) ==
  /\ procs[p].pc = "bq_meta"
  /\ \/ procs' = [procs EXCEPT ![p] =
                     [@ EXCEPT !.metaData = table,
                               !.pc = IF ~table.exists THEN "bq_create"
                                      ELSE IF Equal(table.schema, procs[p].schema)
                                      THEN "done"
                                      ELSE "bq_update"]]
     \/ procs' = [procs EXCEPT ![p] =
                     TableCallFails(@, Wrap(Wrap(ErrIO, "failed to get table metadata"),
                                            "failed to create BigQuery table"))]
  /\ UNCHANGED <<table, nextScanID, schemaFrame>>

GoCreateTable(p) ==
  /\ procs[p].pc = "bq_create"
  /\ \/ /\ ~table.exists
        /\ table' = Stored(procs[p].schema, table.etag + 1)
        /\ procs' = [procs EXCEPT ![p].pc = "done"]
     \/ /\ procs' = [procs EXCEPT ![p] =
                        TableCallFails(@, Wrap(Wrap(ErrIO, "failed to create table"),
                                               "failed to create BigQuery table"))]
        /\ UNCHANGED table
  /\ UNCHANGED <<nextScanID, schemaFrame>>

GoUpdateTable(p) ==
  /\ procs[p].pc = "bq_update"
  /\ \/ /\ ETagMatches(table, procs[p].metaData.etag)
        /\ table' = Stored(Merge(procs[p].metaData.schema, procs[p].schema),
                           table.etag + 1)
        /\ procs' = [procs EXCEPT ![p] =
                        [@ EXCEPT !.schema = Merge(procs[p].metaData.schema, @),
                                  !.schemaUpdated = TRUE, !.pc = "done"]]
     \/ /\ procs' = [procs EXCEPT ![p] =
                        TableCallFails(@, Wrap(Wrap(ErrIO, "failed to update table"),
                                               "failed to update BigQuery table"))]
        /\ UNCHANGED table
  /\ UNCHANGED <<nextScanID, schemaFrame>>

\* The ingestion is over; the next one may start.
GoReturn(p) ==
  /\ procs[p].pc \in {"done", "failed"}
  /\ procs' = [procs EXCEPT ![p] = IdleCall]
  /\ UNCHANGED <<table, nextScanID, schemaFrame>>

SchemaNext ==
  \E p \in Procs :
    \/ GoInfer(p)
    \/ GoGetMetadata(p)
    \/ GoCreateTable(p)
    \/ GoUpdateTable(p)
    \/ GoReturn(p)

SchemaSpec == SchemaInit /\ [][SchemaNext]_vars

(***************************************************************************)
(* The identity of detected vulnerabilities: two vulnerabilities of one    *)
(* result, differing in any of their fields, are given their IDs.          *)
(***************************************************************************)
IdentityVulns ==
  {[VulnerabilityID |-> v, PkgName |-> n, PkgPath |-> p, PkgID |-> i,
    Severity |-> s] :
      v \in VulnIDs, n \in {"left-pad", "right-pad"}, p \in {"", "app/go.mod"},
      i \in {"left-pad@1.0.0", "left-pad@1.0.1"}, s \in Severities}

IdentityInit == Init /\ ~cfg.bq /\ cfg.impl = "memory"

DetectedVulnerabilityID ==
  /\ pc = "idle"
  /\ \E d1 \in IdentityVulns, d2 \in IdentityVulns :
       /\ report' = [SchemaVersion |-> 2, ArtifactName |-> "widgets",
                     ResultsNil |-> FALSE,
                     Results |-> <<[Target |-> "go.mod",
                                    Vulnerabilities |-> <<d1, d2>>]>>]
       /\ newVulns' = <<NewVulnerability(d1), NewVulnerability(d2)>>
  /\ caller' = "identity"
  /\ pc' = "done"
  /\ UNCHANGED <<cfg, streams, server, procs, trivyDB, bqStore, nextScanID, repos, meta,
                 scanID, tblLocals, insLocals, idx, recIdx, existingMap,
                 statusUpdates, ci, updated, updateList, ui, commits, retErr,
                 errRange, failedOp, bqOps, fsOps, prevDetected, base,
                 prevFailed>>

IdentityNext ==
  \/ DetectedVulnerabilityID
  \/ Return

IdentitySpec == IdentityInit /\ [][IdentityNext]_vars

(***************************************************************************)
(* Properties.                                                             *)
(***************************************************************************)
Ingesting == caller = "usecase"
Succeeded == pc = "done" /\ retErr = NoErr
NewVulnIDs == {newVulns[i].ID : i \in DOMAIN newVulns}
Mutated(t) ==
  \/ <<"BatchCreateVulnerabilities", t>> \in fsOps
  \/ <<"BatchUpdateVulnerabilityStatus", t>> \in fsOps

\* The result at recIdx has been reconciled and its batch writes are done.
Processed ==
  /\ recIdx # 0
  /\ failedOp = ""
  /\ \/ pc = "fs_target" /\ idx = recIdx + 1
     \/ pc = "done" /\ recIdx = Len(report.Results)

\* C1: when an ingestion with a relational store has succeeded, every
\* identity its report detects under a target is stored Active under that
\* target and every other vulnerability stored there is Fixed.
C1_StatusFollowsDetection ==
  (Ingesting /\ Succeeded /\ cfg.repo) =>
    \A t \in ReportTargets(report) :
      /\ HasTarget(t)
      /\ \A id \in DetectedAll(report, t) :
           id \in DOMAIN VulnsOf(t) /\ VulnsOf(t)[id].Status = VulnStatusActive
      /\ \A id \in DOMAIN VulnsOf(t) \ DetectedAll(report, t) :
           VulnsOf(t)[id].Status = VulnStatusFixed

\* C2: a stored Fixed vulnerability that is detected again gets a status
\* update to Active and no entry in the create list, and once the batch
\* writes of that result are done the target holds it once, Active, next
\* to the records it held before and the new ones.
C2_Redetection ==
  recIdx # 0 =>
    \A id \in DOMAIN existingMap :
      (/\ existingMap[id].Status = VulnStatusFixed
       /\ id \in DetectedIDs(report.Results[recIdx].Vulnerabilities)) =>
         /\ id \in DOMAIN statusUpdates
         /\ statusUpdates[id] = VulnStatusActive
         /\ id \notin NewVulnIDs
         /\ Processed =>
              /\ DOMAIN VulnsOf(TargetIDAt(recIdx)) =
                   DOMAIN existingMap \cup NewVulnIDs
              /\ VulnsOf(TargetIDAt(recIdx))[id].Status = VulnStatusActive

C2_Witness ==
  /\ Processed
  /\ \E id \in DOMAIN existingMap :
       /\ existingMap[id].Status = VulnStatusFixed
       /\ id \in DetectedIDs(report.Results[recIdx].Vulnerabilities)

\* C3: an ingestion whose report detects, under a target, the same set as
\* the immediately preceding successful ingestion issues no batch create
\* and no batch status update for that target.
C3_RescanMutatesNothing ==
  (Ingesting /\ cfg.repo) =>
    \A t \in DOMAIN prevDetected :
      (t \in ReportTargets(report) /\ DetectedAll(report, t) = prevDetected[t])
        => ~Mutated(t)

\* C4: no step removes a stored vulnerability: every ID stored under a
\* (repository, branch, target) is still stored under it after the step.
C4_NeverDeleted ==
  [][\A r \in DOMAIN repos :
       /\ r \in DOMAIN repos'
       /\ \A b \in DOMAIN repos[r].branches :
            /\ b \in DOMAIN repos'[r].branches
            /\ \A t \in DOMAIN repos[r].branches[b].targets :
                 /\ t \in DOMAIN repos'[r].branches[b].targets
                 /\ DOMAIN repos[r].branches[b].targets[t].vulns \subseteq
                      DOMAIN repos'[r].branches[b].targets[t].vulns]_vars

\* A vulnerability of an earlier scan is still stored, Fixed, after a later
\* ingestion re-upserted its target and failed in the batch create.
C4_Witness ==
  /\ pc = "done"
  /\ failedOp = "BatchCreateVulnerabilities"
  /\ \E t \in ReportTargets(report) :
       HasTarget(t) /\ \E id \in DOMAIN VulnsOf(t) :
         VulnsOf(t)[id].Status = VulnStatusFixed

\* C5: an ingestion whose report fails validation returns the error and
\* has made no call to the analytical store and none to the relational one.
C5_InvalidReportTouchesNothing ==
  (Ingesting /\ Validate(report) # NoErr) =>
    /\ pc = "done"
    /\ retErr = Wrap(Validate(report), "invalid trivy report")
    /\ bqOps = {}
    /\ fsOps = {}

C5_Witness ==
  /\ Ingesting
  /\ pc = "done"
  /\ FirstEmptyTarget(report.Results) = 2
  /\ cfg.bq /\ cfg.repo

\* C6: when a call of the analytical step fails (metadata fetch, table
\* create, table update or row insert) the ingestion ends with an error and
\* has made no relational-store call.
C6_AnalyticalFailureAborts ==
  (Ingesting /\ failedOp \in BqCalls) =>
    /\ pc = "done"
    /\ retErr # NoErr
    /\ fsOps = {}

C6_Witness ==
  /\ Ingesting
  /\ failedOp = "Insert"
  /\ cfg.repo
  /\ schemaUpdated

\* C7: when a relational-store call fails after the analytical write
\* succeeded, InsertScanResult returns the store's error wrapped and the
\* scan's row is still in the analytical store.
C7_RelationalFailureKeepsRecord ==
  (Ingesting /\ failedOp \in FsCalls /\ cfg.bq) =>
    /\ pc = "done"
    /\ Len(retErr) >= 2
    /\ retErr[1] = "failed to insert scan data to Firestore"
    /\ retErr[Len(retErr)] \in {ErrIO[1], ErrNotFound[1]}
    /\ rows[scanID] = 1

C7_Witness ==
  /\ Ingesting
  /\ cfg.bq
  /\ failedOp = "BatchUpdateVulnerabilityStatus"
  /\ rows[scanID] = 1

\* C8: the analytical store never holds more than one row for a scan ID,
\* holds exactly one for an ingestion once its analytical step has
\* succeeded, and no step removes a row or adds one for another scan ID.
C8_OneRecordPerScan ==
  /\ [](/\ \A s \in DOMAIN rows : rows[s] <= 1
        /\ (Ingesting /\ cfg.bq /\ failedOp \notin BqCalls
              /\ pc \notin {"bq_meta", "bq_create", "bq_update", "bq_insert"}
              /\ Validate(report) = NoErr)
             => rows[scanID] = 1)
  /\ [][\A s \in DOMAIN rows :
          /\ rows'[s] >= rows[s]
          /\ (s # scanID => rows'[s] = rows[s])]_vars

C8_Witness ==
  /\ Ingesting
  /\ Succeeded
  /\ cfg.bq
  /\ rows[scanID] = 1
  /\ \E s \in DOMAIN rows : s # scanID /\ rows[s] = 1

\* C9: the write of an ingestion runs with retry enabled exactly when that
\* ingestion has just updated the table to a merged schema.
C9_RetryIffSchemaUpdated ==
  (Ingesting /\ errs # <<>>) => (enableRetry <=> schemaUpdated)

\* C10: when the first attempt of a write fails with an error that is not
\* a schema mismatch, or with a schema mismatch while retry is not enabled,
\* the write ends after that one attempt and returns that error.
InsertErr == IF caller = "usecase" THEN Tail(retErr) ELSE retErr

C10_FailsImmediately ==
  (/\ errs # <<>>
   /\ errs[1] # NoErr
   /\ ~isSchemaNotFoundError(errs[1]) \/ ~enableRetry) =>
     /\ Len(errs) = 1
     /\ pc = "done"
     /\ failedOp = "Insert"
     /\ InsertErr = errs[1]

C10_Witness ==
  /\ pc = "done"
  /\ Len(errs) = 1
  /\ isSchemaNotFoundError(errs[1])
  /\ ~enableRetry
  /\ caller = "direct"

\* The commits of the running batch create, and of the batch update.
CreateCommits == SelectSeq(commits, LAMBDA c : c[1] = "create")
UpdateCommits == SelectSeq(commits, LAMBDA c : c[1] = "update")

\* The k-th chunk of a list of n items.
ChunkRange(k, n) == <<(k - 1) * batchSize, Min(k * batchSize, n)>>

Ceil(n, d) == (n + d - 1) \div d

\* C11: when the commit of a chunk of a Firestore batch create or batch
\* status update fails, the ingestion ends with an error that carries the
\* range of that chunk, the chunks before it are committed and in the store,
\* and nothing of that chunk or of a later one has been written.
C11_ChunkFailure ==
  (cfg.impl = "firestore"
     /\ failedOp \in {"BatchCreateVulnerabilities",
                      "BatchUpdateVulnerabilityStatus"}) =>
    LET create == failedOp = "BatchCreateVulnerabilities"
        done == IF create THEN CreateCommits ELSE UpdateCommits
        n == IF create THEN Len(newVulns) ELSE Len(updateList)
        k == Len(done) + 1
        t == TargetIDAt(idx)
    IN  /\ pc = "done"
        /\ retErr # NoErr
        /\ errRange = ChunkRange(k, n)
        /\ \A j \in 1..(k - 1) :
             done[j] = <<IF create THEN "create" ELSE "update",
                         ChunkRange(j, n)[1], ChunkRange(j, n)[2]>>
        /\ create =>
             \A i \in 1..n :
               IF i <= (k - 1) * batchSize
               THEN /\ newVulns[i].ID \in DOMAIN VulnsOf(t)
                    /\ VulnsOf(t)[newVulns[i].ID] = newVulns[i]
               ELSE newVulns[i].ID \in DOMAIN VulnsOf(t) =>
                      \E h \in 1..((k - 1) * batchSize) :
                        newVulns[h].ID = newVulns[i].ID
        /\ ~create =>
             \A i \in 1..n :
               VulnsOf(t)[updateList[i]].Status =
                 IF i <= (k - 1) * batchSize
                 THEN statusUpdates[updateList[i]]
                 ELSE existingMap[updateList[i]].Status

\* The second of three chunks of a batch create failed.
C11_Witness ==
  /\ cfg.impl = "firestore"
  /\ failedOp = "BatchCreateVulnerabilities"
  /\ Len(newVulns) = 1200
  /\ errRange = <<500, 1000>>
  /\ Cardinality(DOMAIN VulnsOf(TargetIDAt(idx))) = 500

\* C12: a Firestore batch create of n vulnerabilities commits the chunks
\* [0,500), [500,1000), ... of its list in that order, each of at most 500
\* items, and when it has returned without error it has issued exactly
\* ceil(n/500) commits, none for n = 0, and every item is stored.
C12_ChunkedCreate ==
  (cfg.impl = "firestore" /\ recIdx # 0) =>
    LET n == Len(newVulns)
        t == TargetIDAt(recIdx)
    IN  /\ \A k \in DOMAIN CreateCommits :
             /\ CreateCommits[k] =
                  <<"create", ChunkRange(k, n)[1], ChunkRange(k, n)[2]>>
             /\ CreateCommits[k][3] - CreateCommits[k][2] \in 1..batchSize
        /\ (failedOp = "" /\ (pc \in {"fs_update", "done"} \/ idx > recIdx)) =>
             /\ Len(CreateCommits) = Ceil(n, batchSize)
             /\ \A i \in 1..n : newVulns[i].ID \in DOMAIN VulnsOf(t)

\* 1200 new vulnerabilities have been created in commits of 500, 500, 200.
C12_Witness ==
  /\ cfg.impl = "firestore"
  /\ pc = "done"
  /\ failedOp = ""
  /\ Len(newVulns) = 1200
  /\ commits = <<<<"create", 0, 500>>, <<"create", 500, 1000>>,
                 <<"create", 1000, 1200>>>>
  /\ Cardinality(DOMAIN VulnsOf(TargetIDAt(recIdx))) = 1200

\* The stored vulnerability IDs with their statuses.
StatusView(s) ==
  [rid \in DOMAIN s |->
     [b \in DOMAIN s[rid].branches |->
        [t \in DOMAIN s[rid].branches[b].targets |->
           [id \in DOMAIN s[rid].branches[b].targets[t].vulns |->
              s[rid].branches[b].targets[t].vulns[id].Status]]]]

Started(p) == procs[p].pc # "idle"
Finished(p) == procs[p].pc = "done"
SameRepo(p, q) == ProcRepoID(p) = ProcRepoID(q)
SameBranch(p, q) == SameRepo(p, q) /\ ProcBranch(p) = ProcBranch(q)

\* No other goroutine has been started for the repository and branch of p.
OnlyOnBranch(p) ==
  \A q \in Procs \ {p} : Started(q) => ~SameBranch(p, q)

\* The store goroutine p would have left had it run alone.
AloneStore(p) ==
  RunAlone(base, procs[p].meta, procs[p].report, procs[p].timestamp)

BranchAsAlone(p) ==
  /\ ProcRepoID(p) \in DOMAIN repos
  /\ ProcBranch(p) \in DOMAIN repos[ProcRepoID(p)].branches
  /\ repos[ProcRepoID(p)].branches[ProcBranch(p)] =
       AloneStore(p)[ProcRepoID(p)].branches[ProcBranch(p)]

RepoAsAlone(p) ==
  /\ ProcRepoID(p) \in DOMAIN repos
  /\ repos[ProcRepoID(p)].repo = AloneStore(p)[ProcRepoID(p)].repo

\* C14 as stated: an ingestion that has succeeded while the others ran for
\* other repositories or branches has left the repository, branch, target
\* and vulnerability records it would have left alone.
C14_Independent ==
  \A p \in Procs :
    (Finished(p) /\ OnlyOnBranch(p)) => (BranchAsAlone(p) /\ RepoAsAlone(p))

\* C14: an ingestion that has succeeded while the others ran for other
\* repositories or branches has left the branch, target and vulnerability
\* records it would have left alone; the repository record is as alone when
\* no other ingestion ran for that repository, and otherwise is the record
\* one of the ingestions for that repository wrote.
C14_BranchesIndependent ==
  \A p \in Procs :
    (Finished(p) /\ OnlyOnBranch(p)) =>
      /\ BranchAsAlone(p)
      /\ (\A q \in Procs \ {p} : Started(q) => ~SameRepo(p, q)) => RepoAsAlone(p)
      /\ \E q \in Procs :
           /\ Started(q) /\ SameRepo(p, q)
           /\ repos[ProcRepoID(p)].repo =
                RepoDoc(procs[q].meta, procs[q].timestamp)

\* g1 was started while g2 ran for another branch of the same repository,
\* updated statuses and finished; g2 is still updating statuses.
C14_Witness ==
  /\ Finished("g1")
  /\ procs["g2"].pc = "fs_update"
  /\ procs["g1"].timestamp > procs["g2"].timestamp
  /\ SameRepo("g1", "g2")
  /\ ~SameBranch("g1", "g2")
  /\ DOMAIN procs["g1"].statusUpdates # {}
  /\ base # EmptyMap

\* C15: no two goroutines are in flight for the same repository and branch.
C15_OneInFlightPerBranch ==
  \A p, q \in Procs :
    (p # q /\ InFlight(p) /\ InFlight(q)) => ~SameBranch(p, q)

WriteCalls == (BqCalls \ {"GetMetadata"}) \cup (FsCalls \ {"ListVulnerabilities"})

\* C16: whenever a write to the analytical or to the relational store
\* issued by an ingestion has failed, the ingestion has ended and the error
\* it returns to its caller is not nil.
C16_WriteFailureSurfaces ==
  (Ingesting /\ failedOp \in WriteCalls) => (pc = "done" /\ retErr # NoErr)

\* A batch write of the second result of a report has failed after the
\* analytical store took the scan.
C16_Witness ==
  /\ Ingesting /\ cfg.bq /\ idx = 2
  /\ failedOp \in {"BatchCreateVulnerabilities", "BatchUpdateVulnerabilityStatus"}
  /\ pc = "done" /\ retErr # NoErr

\* The (repository, branch, target, ID) keys of the stored vulnerabilities.
StoredKeys(s) ==
  UNION {UNION {UNION {{<<rid, b, t, id>> :
                          id \in DOMAIN s[rid].branches[b].targets[t].vulns} :
                       t \in DOMAIN s[rid].branches[b].targets} :
                b \in DOMAIN s[rid].branches} :
         rid \in DOMAIN s}
StoredVuln(s, k) == s[k[1]].branches[k[2]].targets[k[3]].vulns[k[4]]

\* C17: no step changes a field of an already stored vulnerability other
\* than Status and UpdatedAt: its ID, Severity and CreatedAt after the step
\* are those before it, whatever the scans report for its identity.
C17_OnlyStatusChanges ==
  [][\A k \in StoredKeys(repos) :
       k \in StoredKeys(repos') =>
         [StoredVuln(repos', k) EXCEPT
            !.Status = StoredVuln(repos, k).Status,
            !.UpdatedAt = StoredVuln(repos, k).UpdatedAt] = StoredVuln(repos, k)]_vars

\* A vulnerability created with one severity was marked Fixed and is
\* Active again after a scan that rates its identity differently; it still
\* carries the severity and the creation time of its first scan.
C17_Witness ==
  /\ Processed
  /\ \E id \in DOMAIN statusUpdates :
       /\ id \in DOMAIN existingMap
       /\ existingMap[id].Status = VulnStatusFixed
       /\ \E i \in DOMAIN report.Results[recIdx].Vulnerabilities :
            /\ VulnID(report.Results[recIdx].Vulnerabilities[i]) = id
            /\ report.Results[recIdx].Vulnerabilities[i].Severity
                 # existingMap[id].Severity
       /\ VulnsOf(TargetIDAt(recIdx))[id].Status = VulnStatusActive
       /\ VulnsOf(TargetIDAt(recIdx))[id].Severity = existingMap[id].Severity
       /\ VulnsOf(TargetIDAt(recIdx))[id].CreatedAt = existingMap[id].CreatedAt
       /\ VulnsOf(TargetIDAt(recIdx))[id].CreatedAt < scanID

VulnStatuses == {VulnStatusActive, VulnStatusFixed}

\* C18: the Status of every stored vulnerability is Active or Fixed at all
\* times, and a vulnerability that a step adds to the store is Active.
C18_NoTerminalState ==
  /\ [](\A k \in StoredKeys(repos) : StoredVuln(repos, k).Status \in VulnStatuses)
  /\ [][\A k \in StoredKeys(repos') \ StoredKeys(repos) :
          StoredVuln(repos', k).Status = VulnStatusActive]_vars

\* A vulnerability created Active by one scan and marked Fixed by a second
\* is Active again after a third: each state has been left for the other.
C18_Witness ==
  /\ Processed
  /\ cfg.impl = "firestore"
  /\ \E id \in DOMAIN statusUpdates :
       /\ id \in DOMAIN existingMap
       /\ existingMap[id].Status = VulnStatusFixed
       /\ existingMap[id].CreatedAt < existingMap[id].UpdatedAt
       /\ existingMap[id].UpdatedAt < scanID
       /\ VulnsOf(TargetIDAt(recIdx))[id].Status = VulnStatusActive
       /\ VulnsOf(TargetIDAt(recIdx))[id].UpdatedAt = scanID

\* The error chain err ends in the not-found sentinel.
IsNotFound(err) == err # NoErr /\ err[Len(err)] = ErrNotFound[1]

\* C19: a listing of the vulnerabilities of a target that is not in the
\* store returns the empty list without an error, unless it failed with an
\* error other than not-found.
C19_NotFoundIsEmpty ==
  (caller = "direct" /\ pc = "done") =>
    \A op \in fsOps :
      (op[1] = "ListVulnerabilities"
         /\ ~TargetExists(RepoID, meta.Branch, op[2])) =>
        \/ retErr = NoErr /\ existingMap = EmptyMap
        \/ retErr # NoErr /\ ~IsNotFound(retErr)

\* C20: when the status updates of a result have been applied, every
\* vulnerability they name carries the requested Status and the time of
\* the applying scan as its UpdatedAt.
C20_UpdateBumpsTimestamp ==
  Processed =>
    \A id \in DOMAIN statusUpdates :
      /\ VulnsOf(TargetIDAt(recIdx))[id].Status = statusUpdates[id]
      /\ VulnsOf(TargetIDAt(recIdx))[id].UpdatedAt = scanID

\* The call op of the running ingestion has been made and has not failed.
BqDone(op) == Ingesting /\ op \in bqOps /\ failedOp # op

\* C21: when the metadata fetch found no table, the ingestion issues no
\* table update, creates the table with the inferred schema, and writes the
\* record with that schema in a single attempt with retry disabled.
C21_CreateWhenMissing ==
  (BqDone("GetMetadata") /\ ~metaData.exists) =>
    /\ "UpdateTable" \notin bqOps
    /\ pc # "bq_create" => "CreateTable" \in bqOps
    /\ BqDone("CreateTable") =>
         /\ table = TableOf(Infer(report))
         /\ schema = Infer(report)
         /\ ~schemaUpdated
    /\ "Insert" \in bqOps =>
         /\ BqDone("CreateTable")
         /\ ~enableRetry /\ attempt = 0 /\ Len(errs) = 1

\* The first ingestion created the table from a report with results and
\* wrote its row in one attempt.
C21_Witness ==
  /\ BqDone("GetMetadata") /\ ~metaData.exists
  /\ BqDone("CreateTable")
  /\ table = TableOf(<<"id", "results">>)
  /\ BqDone("Insert") /\ rows[scanID] = 1 /\ Len(errs) = 1

\* C22: when the metadata fetch found a table whose schema has the fields
\* of the inferred schema and no others, the ingestion issues no table
\* create and no table update, and writes the record with the inferred
\* schema.
C22_NoChangeWhenEqual ==
  (BqDone("GetMetadata") /\ metaData.exists
     /\ Len(metaData.schema) = Len(Infer(report))
     /\ Range(metaData.schema) = Range(Infer(report))) =>
    /\ bqOps \cap {"CreateTable", "UpdateTable"} = {}
    /\ pc \notin {"bq_create", "bq_update"}
    /\ schema = Infer(report)
    /\ ~schemaUpdated
    /\ table = metaData

\* A later ingestion of a report of the same shape wrote its row into the
\* table an earlier one created.
C22_Witness ==
  /\ BqDone("GetMetadata") /\ metaData.exists
  /\ metaData.schema = Infer(report) /\ Len(Infer(report)) = 3
  /\ BqDone("Insert") /\ rows[scanID] = 1
  /\ bqOps = {"GetMetadata", "Insert"}

Defective(r) ==
  \/ r.SchemaVersion <= 0
  \/ r.ArtifactName = ""
  \/ r.ResultsNil
  \/ \E i \in DOMAIN r.Results : r.Results[i].Target = ""

C26_ShutdownWaitsForScans ==
  server.state = "exited" => \A p \in Procs : ~InFlight(p)

\* C27: the goroutines started are as many as the events answered 202; a
\* step that starts one answers 202 in the same step, while the scan has
\* all its work ahead; and the context of a started scan is never
\* cancelled by its request, so no scan ends with a cancellation error.
C27_DetachedBackgroundScan ==
  /\ [](server.accepted = Cardinality({p \in Procs : procs[p].pc # "idle"}))
  /\ [](\A p \in Procs :
          procs[p].pc # "idle" =>
            ~Cancelled(procs[p].ctx) /\ procs[p].err # "context canceled")
  /\ [][\A p \in Procs :
          (procs[p].pc = "idle" /\ procs'[p].pc # "idle") =>
            /\ procs'[p].pc = "fs_repo"
            /\ server'.last = 202
            /\ server'.accepted = server.accepted + 1]_vars

\* Both accepted events were answered and their scans ran to the end in
\* the Firestore store afterwards, one of them storing a vulnerability.
C27_Witness ==
  /\ cfg.impl = "firestore"
  /\ server.accepted = 2 /\ server.last = 202
  /\ \A p \in Procs : procs[p].pc = "done" /\ procs[p].ctx.parent = "background"
  /\ \E p \in Procs : Len(procs[p].newVulns) = 1

\* The attempts the running Insert has made.
Attempts == Len(errs)

\* C28 as stated: Insert never makes more than maxRetries attempts.
C28_AtMostMaxRetriesAttempts == Attempts <= maxRetries

\* C28: Insert never makes more than maxRetries + 1 attempts: the first
\* one and at most maxRetries retries, each retry following a
\* schema-mismatch error with retry enabled; when the last of them fails
\* with the schema mismatch again, Insert has returned "failed to insert
\* after retries".
C28_BoundedAttempts ==
  /\ Attempts <= maxRetries + 1
  /\ attempt <= maxRetries
  /\ attempt > 0 => enableRetry
  /\ (Attempts = maxRetries + 1 /\ isSchemaNotFoundError(errs[Attempts])) =>
       /\ pc = "done"
       /\ failedOp = "Insert"
       /\ retErr = Wrap(errs[Attempts], "failed to insert after retries")

\* The eleventh attempt of an Insert with retry enabled failed with the
\* schema mismatch like the ten before it.
C28_Witness ==
  /\ Attempts = maxRetries + 1
  /\ enableRetry
  /\ \A i \in DOMAIN errs : isSchemaNotFoundError(errs[i])
  /\ pc = "done" /\ failedOp = "Insert"

RECURSIVE Pow(_, _)
Pow(b, n) == IF n = 0 THEN 1 ELSE b * Pow(b, n - 1)

\* min(initialBackoff * (3/2)^(k-1), maxBackoff), in microseconds: below
\* the cap the power of two still divides initialBackoff.
ClosedWait(k) ==
  IF Pow(backoffMultiplierNum, k - 1)
       >= (maxBackoff \div initialBackoff) * Pow(backoffMultiplierDen, k - 1)
  THEN maxBackoff
  ELSE (initialBackoff \div Pow(backoffMultiplierDen, k - 1))
         * Pow(backoffMultiplierNum, k - 1)

\* C29: the wait that follows the k-th attempt of an Insert is
\* min(5 s * 1.5^(k-1), 60 s), and from one wait to the next the backoff
\* does not decrease and does not exceed 60 s.
C29_ExponentialBackoff ==
  /\ [](backoff = ClosedWait(attempt + 1))
  /\ [][attempt' = attempt + 1 =>
          backoff <= backoff' /\ backoff' <= maxBackoff]_vars

\* After six retries the next wait is 56.953125 s, the last one below the
\* cap.
C29_Witness ==
  /\ attempt = 6
  /\ backoff = 56953125
  /\ pc = "bq_insert"

\* C30: a managed stream is open only between its NewManagedStream and the
\* return of the attempt that opened it; whenever no attempt is running
\* (before Insert, between two attempts, after Insert returned with or
\* without an error) no stream is open.
C30_StreamClosedAfterAttempt ==
  /\ streams \in {0, 1}
  /\ pc \in {"idle", "ms_open", "done"} => streams = 0
  /\ pc \in {"ms_append", "ms_result", "ms_close"} => streams = 1

\* Insert returned an error after a retry: the first attempt opened a
\* stream and failed with the schema mismatch, the last one opened a
\* stream and failed to append.
C30_Witness ==
  /\ pc = "done"
  /\ failedOp = "Insert"
  /\ Len(errs) >= 2
  /\ isSchemaNotFoundError(errs[1])
  /\ errs[Len(errs)] = Wrap(ErrIO, "failed to append rows")
  /\ streams = 0

\* The targets stored under the branch of the running ingestion in store s.
TargetsIn(s) ==
  IF GitHubRepoID(meta) \in DOMAIN s
     /\ meta.Branch \in DOMAIN s[GitHubRepoID(meta)].branches
  THEN s[GitHubRepoID(meta)].branches[meta.Branch].targets
  ELSE EmptyMap

\* The store a failure-free insertToFirestore leaves once it has processed
\* the first k results of the report.
PrefixStore(k) ==
  LET s1 == PutRepository(base, GitHubRepoID(meta), RepoDoc(meta, scanID))
      s2 == PutBranch(s1, GitHubRepoID(meta), meta.Branch, BranchDoc(meta, scanID))
  IN  ReconcileResults(s2, meta, SubSeq(report.Results, 1, k), scanID)

ResultCalls == {"CreateOrUpdateTarget", "ListVulnerabilities",
                "BatchCreateVulnerabilities", "BatchUpdateVulnerabilityStatus"}

\* The ingestion ended with the failure of a call made for result idx.
FailedAtResult == Ingesting /\ pc = "done" /\ failedOp \in ResultCalls

\* The target of result i of the report, and those of the results up to k.
ResultTarget(i) == ToTargetID(report.Results[i].Target)
TargetsUpTo(k) == {ResultTarget(i) : i \in 1..Min(k, Len(report.Results))}

\* C31: an ingestion works on one result at a time, in report order: the
\* result index only moves to the next result, and every repository call
\* made so far was for a result up to the current one.  When a call for
\* result idx fails, the ingestion returns the error, the targets of the
\* results before idx are stored as a failure-free run over those results
\* leaves them, and a target only later results name is as it was before
\* the ingestion.  (A first ingestion of the report: base is the store it
\* started on.)
C31_SequentialResults ==
  /\ []((Ingesting /\ cfg.repo /\ prevFailed = <<>>) =>
         /\ \A op \in fsOps : op[2] = NoTarget \/ op[2] \in TargetsUpTo(idx)
         /\ FailedAtResult =>
              /\ retErr # NoErr
              /\ retErr[1] = "failed to insert scan data to Firestore"
              /\ \A t \in (DOMAIN TargetsIn(repos)
                             \cup DOMAIN TargetsIn(PrefixStore(idx - 1)))
                            \ {ResultTarget(idx)} :
                   /\ t \in DOMAIN TargetsIn(repos)
                   /\ t \in DOMAIN TargetsIn(PrefixStore(idx - 1))
                   /\ TargetsIn(repos)[t] = TargetsIn(PrefixStore(idx - 1))[t])
  /\ [][(Ingesting /\ pc # "done") => idx' \in {idx, idx + 1}]_vars

\* The second result of a report over two manifests failed in its status
\* update after the first result had created a vulnerability.
C31_Witness ==
  /\ FailedAtResult /\ prevFailed = <<>>
  /\ idx = 2
  /\ failedOp = "BatchUpdateVulnerabilityStatus"
  /\ ResultTarget(1) # ResultTarget(2)
  /\ \E id \in DOMAIN TargetsIn(repos)[ResultTarget(1)].vulns :
       TargetsIn(repos)[ResultTarget(1)].vulns[id].CreatedAt = scanID

\* The store after goroutine p and then goroutine q ran alone on base.
SerialStore(p, q) ==
  RunAlone(RunAlone(base, procs[p].meta, procs[p].report, procs[p].timestamp),
           procs[q].meta, procs[q].report, procs[q].timestamp)

\* C32: when two ingestions of the same repository, branch and target have
\* both finished, the stored vulnerabilities and their statuses are those
\* one of the two serial orders leaves.
C32_SerializableStatuses ==
  \A p, q \in Procs :
    (/\ p # q /\ Finished(p) /\ Finished(q) /\ SameBranch(p, q)
     /\ procs[p].report.Results # <<>> /\ procs[q].report.Results # <<>>) =>
      \/ StatusView(repos) = StatusView(SerialStore(p, q))
      \/ StatusView(repos) = StatusView(SerialStore(q, p))

\* The stored branch record of the running ingestion.
StoredBranch == repos[RepoID].branches[meta.Branch].branch

\* C33: when an ingestion has returned and the stored branch names its
\* scan as the last one, with Status success, the relational phase of that
\* ingestion did not fail and every target of its report is stored as a
\* failure-free run leaves it.
C33_SuccessMeansReconciled ==
  (/\ Ingesting /\ cfg.repo /\ pc = "done" /\ prevFailed = <<>>
   /\ HasBranch
   /\ StoredBranch.LastScanID = scanID
   /\ StoredBranch.Status = ScanStatusSuccess) =>
     /\ failedOp \notin FsCalls
     /\ TargetsIn(repos) = TargetsIn(PrefixStore(Len(report.Results)))

\* C34: the list processVulnerabilities hands to BatchCreateVulnerabilities
\* holds no identity twice.
C34_CreateListHasNoDuplicate ==
  (Ingesting /\ pc = "fs_create") =>
    \A i, j \in DOMAIN newVulns : newVulns[i].ID = newVulns[j].ID => i = j

\* The reconciliation of result recIdx has been computed.
Reconciled == Ingesting /\ recIdx # 0

\* C35: in every reconciliation the create list names no stored
\* vulnerability, every status update is for a stored vulnerability, so
\* the two share no ID, and every status update changes the status of its
\* vulnerability.
C35_CreateAndUpdateDisjoint ==
  Reconciled =>
    /\ NewVulnIDs \cap DOMAIN existingMap = {}
    /\ DOMAIN statusUpdates \subseteq DOMAIN existingMap
    /\ NewVulnIDs \cap DOMAIN statusUpdates = {}
    /\ \A id \in DOMAIN statusUpdates :
         statusUpdates[id] # existingMap[id].Status

\* A reconciliation that creates one vulnerability, marks a stored Active
\* one Fixed and keeps nothing else.
C35_Witness ==
  /\ Reconciled
  /\ pc = "fs_create"
  /\ Len(newVulns) = 1
  /\ \E id \in DOMAIN statusUpdates :
       /\ statusUpdates[id] = VulnStatusFixed
       /\ existingMap[id].Status = VulnStatusActive

\* C36: no step of an ingestion changes the vulnerabilities stored under a
\* target of its branch that its report does not name: they stay stored,
\* with their statuses, and none is marked Fixed.
C36_OtherTargetsUntouched ==
  [][Ingesting =>
       \A t \in DOMAIN TargetsIn(repos) \ ReportTargets(report) :
         /\ t \in DOMAIN TargetsIn(repos')
         /\ TargetsIn(repos')[t].vulns = TargetsIn(repos)[t].vulns]_vars

\* An ingestion that wrote vulnerability records under a target of its
\* report has succeeded, and a target only an earlier scan reported still
\* holds an Active vulnerability.
C36_Witness ==
  /\ Ingesting /\ Succeeded
  /\ \E t \in ReportTargets(report) : Mutated(t)
  /\ \E t \in DOMAIN TargetsIn(repos) \ ReportTargets(report) :
       \E id \in DOMAIN TargetsIn(repos)[t].vulns :
         TargetsIn(repos)[t].vulns[id].Status = VulnStatusActive

\* The vulnerabilities store s holds under target t of the running
\* ingestion's branch; none when the target is not stored.
HistoryIn(s, t) ==
  IF t \in DOMAIN TargetsIn(s) THEN TargetsIn(s)[t].vulns ELSE EmptyMap

\* The branches store s holds under the running ingestion's repository.
BranchesIn(s) ==
  IF GitHubRepoID(meta) \in DOMAIN s THEN s[GitHubRepoID(meta)].branches
  ELSE EmptyMap

\* C37: the upsert of a repository that is stored leaves its branches as
\* they are, the upsert of a stored branch leaves the repository record
\* and the branch's targets as they are, and the upsert of a stored target
\* leaves the branch record, the other targets and the target's
\* vulnerabilities as they are; the vulnerabilities listed right after the
\* target upsert are those the earlier ingestions and the earlier results
\* of this report left under the target.
C37_UpsertKeepsChildren ==
  [][Ingesting =>
       /\ (pc = "fs_repo" /\ HasRepo) =>
            /\ DOMAIN repos' = DOMAIN repos
            /\ BranchesIn(repos') = BranchesIn(repos)
       /\ (pc = "fs_branch" /\ HasBranch) =>
            /\ repos'[RepoID].repo = repos[RepoID].repo
            /\ DOMAIN BranchesIn(repos') = DOMAIN BranchesIn(repos)
            /\ TargetsIn(repos') = TargetsIn(repos)
       /\ (pc = "fs_target" /\ HasTarget(TargetIDAt(idx))) =>
            /\ BranchesIn(repos')[meta.Branch].branch =
                 BranchesIn(repos)[meta.Branch].branch
            /\ DOMAIN TargetsIn(repos') = DOMAIN TargetsIn(repos)
            /\ \A t \in DOMAIN TargetsIn(repos) :
                 /\ TargetsIn(repos')[t].vulns = TargetsIn(repos)[t].vulns
                 /\ t # TargetIDAt(idx) =>
                      TargetsIn(repos')[t] = TargetsIn(repos)[t]
       /\ (pc = "fs_list" /\ recIdx' = idx /\ prevFailed = <<>>) =>
            existingMap' = HistoryIn(PrefixStore(idx - 1), TargetIDAt(idx))]_vars

\* The second scan has upserted the repository, the branch and a target
\* the first scan created, and listed the vulnerability the first scan
\* stored under it.
C37_Witness ==
  /\ Reconciled /\ recIdx = 1 /\ prevFailed = <<>>
  /\ fsOps = {<<"CreateOrUpdateRepository", NoTarget>>,
              <<"CreateOrUpdateBranch", NoTarget>>,
              <<"CreateOrUpdateTarget", TargetIDAt(1)>>,
              <<"ListVulnerabilities", TargetIDAt(1)>>}
  /\ TargetsIn(repos)[TargetIDAt(1)].target.UpdatedAt = scanID
  /\ \E id \in DOMAIN existingMap : existingMap[id].CreatedAt < scanID
  /\ existingMap = HistoryIn(base, TargetIDAt(1))

\* C38: no step removes a field from the table's schema; a table update
\* changes the table only when the table still is the version whose ETag
\* the ingestion read, and an ingestion whose version has been replaced in
\* the meantime fails in UpdateTable and leaves the table as it is.
C38_SchemaNeverShrinks ==
  [][/\ table.exists =>
          /\ table'.exists
          /\ Range(table.schema) \subseteq Range(table'.schema)
     /\ \A p \in Procs :
          (procs[p].pc = "bq_update" /\ procs'[p] # procs[p]) =>
             /\ table' # table => procs[p].metaData.etag = table.etag
             /\ procs[p].metaData.etag # table.etag =>
                  /\ table' = table
                  /\ procs'[p].pc = "failed"
                  /\ procs'[p].err[1] = "failed to update BigQuery table"]_vars

\* Two ingestions read the same version of the table; one has added its
\* fields, the other has failed in UpdateTable against the version it read.
C38_Witness ==
  \E p, q \in Procs :
    /\ procs[p].pc = "failed"
    /\ procs[p].err[1] = "failed to update BigQuery table"
    /\ procs[p].metaData.etag # table.etag
    /\ procs[q].pc = "done" /\ procs[q].schemaUpdated
    /\ procs[q].metaData = procs[p].metaData
    /\ Range(table.schema) \ Range(procs[p].metaData.schema) # {}
    /\ Range(procs[p].schema) \ Range(table.schema) # {}

\* A direct BatchUpdateVulnerabilityStatus has returned.
DirectUpdateDone ==
  /\ caller = "direct" /\ pc = "done"
  /\ \E op \in fsOps : op[1] = "BatchUpdateVulnerabilityStatus"

\* C39: when a batch status update names an ID the target does not hold,
\* the call fails under the repository in use exactly when it fails under
\* the other implementation on the same target and map.
C39_SameOnMissingID ==
  (DirectUpdateDone /\ ~(DOMAIN statusUpdates \subseteq DOMAIN existingMap)) =>
    \A impl \in {"memory", "firestore"} :
      (retErr = NoErr) <=>
        (UpdateResult(impl, existingMap, statusUpdates, 0).err = NoErr)

\* C40: no step changes the CreatedAt of a repository, branch or target
\* record that is stored before and after it; later ingestions move only
\* UpdatedAt and the branch's last-scan fields.
C40_CreatedAtKept ==
  [][\A r \in DOMAIN repos \cap DOMAIN repos' :
       /\ repos'[r].repo.CreatedAt = repos[r].repo.CreatedAt
       /\ \A b \in DOMAIN repos[r].branches \cap DOMAIN repos'[r].branches :
            /\ repos'[r].branches[b].branch.CreatedAt =
                 repos[r].branches[b].branch.CreatedAt
            /\ \A t \in DOMAIN repos[r].branches[b].targets
                        \cap DOMAIN repos'[r].branches[b].targets :
                 repos'[r].branches[b].targets[t].target.CreatedAt =
                   repos[r].branches[b].targets[t].target.CreatedAt]_vars

====
